---- MODULE Spec2Model ----
(***************************************************************************)
(* CustomTools: the SSH connection pools (main.py ConnectionManager,       *)
(* BulkCommands LocalConnectionManager, FDBSearching and the connection    *)
(* template get_ssh_connection), the BulkCommands batch runner and the     *)
(* entry points that own a pool.                                           *)
(*                                                                         *)
(* Two specifications:                                                     *)
(*   Spec     the pool as a library object: acquire, release, release_all  *)
(*            in any order, sessions dying in between;                     *)
(*   SpecRun  the entry points (central menu, standalone BulkCommands,     *)
(*            standalone FDBSearching) with the batch loop, Ctrl-C and     *)
(*            unexpected errors.                                           *)
(* Everything is single-threaded: one call runs at a time.                 *)
(***************************************************************************)
EXTENDS Integers, Sequences, FiniteSets, TLC

\* ------------------------------------------------------------------ bounds
\* Sessions ever opened through a pool used as a library (Spec).
MaxSessions == 3
\* Sessions ever opened by one run of an entry point (SpecRun).
MaxRunSessions == 2
\* Rows of switches.csv in one batch run.
MaxSwitches == 2
\* Rows of commands.csv in one batch run.
MaxCommands == 2

\* Host keys (strings, never normalised by the code).
Hosts == {"sw1", "sw2"}
NoHost == "-"
\* The four pool implementations.
Impl == {"central", "bulk", "fdb", "template"}
\* Underlying errors of paramiko's connect().
Errs == {"timeout", "auth"}
NoSession == 0

VARIABLES
  impl,         \* which pool implementation this process runs
  connections,  \* the pool dict: host -> session id (NoSession: key absent)
  sessions,     \* every SSHClient ever connected: <<[host, st, closeCalled]>>
  last,         \* what the most recent pool call did (trace, result, pool before)
  retired,      \* sessions that were in the pool when a release_all emptied it
  held,         \* host -> session of its latest successful acquire, while nothing
                \* failed, released or died since (NoSession otherwise)
  pc,           \* position of the entry point
  exitCode,     \* how the process ended once pc = "done": "0", "1" (sys.exit)
                \* or "uncaught" (an exception left main())
  batch,        \* locals of run_bulk_commands / process_switch
  runlog        \* one record per host whose process_switch call returned

poolVars == <<impl, connections, sessions, last, retired, held>>
runVars == <<pc, exitCode, batch, runlog>>

VARIABLES
  cmd,          \* process_switch's loop over the commands: counters and what each
                \* command was given (status, marks printed, log entries)
  logfs,        \* BulkCommands' Logs directory: the clock and who wrote which file
  fdbc,         \* FDBSearching's fdb_cache, the clock and the last get_fdb_info call
  ver,          \* update.py: a call of is_newer_version
  upd,          \* update.py: the local install, the archive and one update run
  vcache,       \* update.py: .versions_cache.json, the clock, one check-only run
  sel,          \* update.py: one call of display_update_options
  cred          \* credentials.txt and the start of main.py

VARIABLES
  credUse,      \* credentials.txt while a process runs: its revision, the revision
                \* read at start-up and the revision each session logged in with
  csv,          \* BulkCommands: one call of load_csv_column and the run around it
  cmp,          \* update.py: one call of compare_versions
  mode1         \* FDBSearching: the prompts of mode1_mac_search

\* The parts above that the specifications of the first eight do not run.
moreVars == <<credUse, csv, cmp, mode1>>

\* The state of the parts that the pool's own actions leave alone.
toolVars == <<cmd, logfs, fdbc, ver, upd, vcache, sel, cred, credUse, csv, cmp, mode1>>
vars == <<impl, connections, sessions, last, retired, held, pc, exitCode, batch, runlog,
          cmd, logfs, fdbc, ver, upd, vcache, sel, cred, credUse, csv, cmp, mode1>>

\* The value of a part's variable in the specifications that do not run it.
Idle == "idle"

\* Every part but those named in keep is not running.
IdleBut(keep) ==
  /\ IF "cmd" \in keep THEN TRUE ELSE cmd = Idle
  /\ IF "logfs" \in keep THEN TRUE ELSE logfs = Idle
  /\ IF "fdbc" \in keep THEN TRUE ELSE fdbc = Idle
  /\ IF "ver" \in keep THEN TRUE ELSE ver = Idle
  /\ IF "upd" \in keep THEN TRUE ELSE upd = Idle
  /\ IF "vcache" \in keep THEN TRUE ELSE vcache = Idle
  /\ IF "sel" \in keep THEN TRUE ELSE sel = Idle
  /\ IF "cred" \in keep THEN TRUE ELSE cred = Idle
  /\ IF "credUse" \in keep THEN TRUE ELSE credUse = Idle
  /\ IF "csv" \in keep THEN TRUE ELSE csv = Idle
  /\ IF "cmp" \in keep THEN TRUE ELSE cmp = Idle
  /\ IF "mode1" \in keep THEN TRUE ELSE mode1 = Idle

\* ---------------------------------------------------------------- sessions

\* paramiko.SSHClient().connect() succeeded: a new live session for host h.
NewSession(h) == [host |-> h, st |-> "live", closeCalled |-> FALSE]

\* ssh.close(): ok closes the session; a close that raises leaves it as it was.
CloseSession(sess, s, closeOk) ==
  [sess EXCEPT ![s] = [@ EXCEPT !.st = IF closeOk THEN "closed" ELSE @,
                                !.closeCalled = TRUE]]

\* A session that is opened and not yet closed.
Open(sess, s) == sess[s].st # "closed"

\* exec_command can only return on a live session.
CanExec(sess, s) == s # NoSession /\ sess[s].st = "live"

\* ------------------------------------------------------------ call records

NoError == [kind |-> "none", host |-> NoHost, cause |-> "-", wrapped |-> FALSE]

\* One step of a pool call: op on session arg with its outcome.
Ev(op, arg, ok) == [op |-> op, arg |-> arg, ok |-> ok, err |-> "-"]

\* A step that raised err.
EvErr(op, arg, err) == [op |-> op, arg |-> arg, ok |-> FALSE, err |-> err]

\* The running state of one pool call.
Call(conns, sess) ==
  [conns |-> conns, sess |-> sess, ev |-> <<>>, ret |-> NoSession,
   raised |-> NoError, printed |-> NoError]

EvOps(ev, op) == {i \in 1..Len(ev) : ev[i].op = op}

\* What the environment decides during one acquire.
AcquireInputs ==
  [probeOk : BOOLEAN, closeOk : BOOLEAN, credsOk : BOOLEAN, conn : {"ok"} \cup Errs]

\* ------------------------------------------------- fragments of get_connection

\* exec_command("show system") on the cached session of h.
Probe(c, h, ok) == [c EXCEPT !.ev = Append(@, Ev("probe", c.conns[h], ok))]

\* Evict with the del forgotten: the dead session stays in the pool.
EvictMutantKeep(c, h, closeOk) ==
  [c EXCEPT !.sess = CloseSession(@, c.conns[h], closeOk),
            !.ev = @ \o <<Ev("close", c.conns[h], closeOk)>>]

\* Evict with the close() forgotten: the entry is dropped, the session left open.
EvictMutantNoClose(c, h, closeOk) ==
  [c EXCEPT !.conns[h] = NoSession,
            !.ev = @ \o <<Ev("del", c.conns[h], TRUE)>>]

\* The dead-connection branch: close() with its exception swallowed, then del.
Evict(c, h, closeOk) ==
  [c EXCEPT !.sess = CloseSession(@, c.conns[h], closeOk),
            !.conns[h] = NoSession,
            !.ev = @ \o <<Ev("close", c.conns[h], closeOk), Ev("del", c.conns[h], TRUE)>>]

\* ssh.connect(...): on success a new session exists (not yet stored).
Connect(c, h, conn) ==
  IF conn = "ok"
  THEN [c EXCEPT !.sess = Append(@, NewSession(h)),
                 !.ev = Append(@, Ev("connect", Len(c.sess) + 1, TRUE))]
  ELSE [c EXCEPT !.ev = Append(@, EvErr("connect", NoSession, conn))]

\* connections[host] = ssh; return ssh
Store(c, h) ==
  [c EXCEPT !.conns[h] = Len(c.sess),
            !.ev = Append(@, Ev("store", Len(c.sess), TRUE)),
            !.ret = Len(c.sess)]

\* ----------------------------------------------------------- get_connection

\* get_connection without the health check: a cached session is returned as it is.
CM_get_connectionMutantNoProbe(conns, sess, h, in) ==
  LET c0 == Call(conns, sess)
      c2 == Connect(c0, h, in.conn)
  IN IF conns[h] # NoSession THEN [c0 EXCEPT !.ret = conns[h]]
     ELSE IF in.conn = "ok" THEN Store(c2, h)
     ELSE [c2 EXCEPT !.printed = [kind |-> "connect", host |-> h, cause |-> in.conn, wrapped |-> TRUE],
                     !.raised = [kind |-> "connect", host |-> NoHost, cause |-> in.conn, wrapped |-> FALSE]]

\* get_connection that tries connect() a second time when the first one fails.
CM_get_connectionMutantRetry(conns, sess, h, in) ==
  LET c0 == Call(conns, sess)
      c1 == IF conns[h] # NoSession THEN Probe(c0, h, in.probeOk) ELSE c0
      c2 == IF conns[h] # NoSession THEN Evict(c1, h, in.closeOk) ELSE c1
      c3 == Connect(c2, h, in.conn)
      c4 == IF in.conn = "ok" THEN c3 ELSE Connect(c3, h, in.conn)
  IN IF conns[h] # NoSession /\ in.probeOk THEN [c1 EXCEPT !.ret = conns[h]]
     ELSE IF in.conn = "ok" THEN Store(c4, h)
     ELSE [c4 EXCEPT !.printed = [kind |-> "connect", host |-> h, cause |-> in.conn, wrapped |-> TRUE],
                     !.raised = [kind |-> "connect", host |-> NoHost, cause |-> in.conn, wrapped |-> FALSE]]

\* main.py ConnectionManager.get_connection
CM_get_connection(conns, sess, h, in) ==
  LET c0 == Call(conns, sess)
      \* if host in self.connections: try exec_command("show system")
      c1 == IF conns[h] # NoSession THEN Probe(c0, h, in.probeOk) ELSE c0
      \* except Exception: close (swallowed), del
      c2 == IF conns[h] # NoSession THEN Evict(c1, h, in.closeOk) ELSE c1
      \* ssh.connect(...)
      c3 == Connect(c2, h, in.conn)
  IN IF conns[h] # NoSession /\ in.probeOk THEN [c1 EXCEPT !.ret = conns[h]]
     ELSE IF in.conn = "ok" THEN Store(c3, h)
     \* print(f"Failed to connect to {host}: {e}"); raise   (the error itself)
     ELSE [c3 EXCEPT !.printed = [kind |-> "connect", host |-> h, cause |-> in.conn, wrapped |-> TRUE],
                     !.raised = [kind |-> "connect", host |-> NoHost, cause |-> in.conn, wrapped |-> FALSE]]

\* BulkCommands LocalConnectionManager.get_connection: no probe, no eviction.
Local_get_connection(conns, sess, h, in) ==
  LET c0 == Call(conns, sess)
      c1 == Connect(c0, h, in.conn)
  IN \* if host in self.connections: return self.connections[host]
     IF conns[h] # NoSession THEN [c0 EXCEPT !.ret = conns[h]]
     ELSE IF in.conn = "ok" THEN Store(c1, h)
     \* raise Exception(f"Failed to connect to {host}: {str(e)}")
     ELSE [c1 EXCEPT !.raised = [kind |-> "connect", host |-> h, cause |-> in.conn, wrapped |-> TRUE]]

\* FDBSearching get_ssh_connection: credentials.txt is read again before every
\* connect; neither that read nor connect() is wrapped.
Fdb_get_ssh_connection(conns, sess, h, in) ==
  LET c0 == Call(conns, sess)
      c1 == IF conns[h] # NoSession THEN Probe(c0, h, in.probeOk) ELSE c0
      c2 == IF conns[h] # NoSession THEN Evict(c1, h, in.closeOk) ELSE c1
      c3 == [c2 EXCEPT !.ev = Append(@, Ev("creds", NoSession, in.credsOk))]
      c4 == Connect(c3, h, in.conn)
  IN IF conns[h] # NoSession /\ in.probeOk THEN [c1 EXCEPT !.ret = conns[h]]
     ELSE IF ~in.credsOk
     THEN [c3 EXCEPT !.raised = [kind |-> "creds", host |-> NoHost, cause |-> "-", wrapped |-> FALSE]]
     ELSE IF in.conn = "ok" THEN Store(c4, h)
     ELSE [c4 EXCEPT !.raised = [kind |-> "connect", host |-> NoHost, cause |-> in.conn, wrapped |-> FALSE]]

\* "ssh connection template" get_ssh_connection: as FDBSearching's, with the
\* failures logged (the log line names the host) and re-raised.
Tpl_get_ssh_connection(conns, sess, h, in) ==
  LET c0 == Call(conns, sess)
      c1 == IF conns[h] # NoSession THEN Probe(c0, h, in.probeOk) ELSE c0
      c2 == IF conns[h] # NoSession THEN Evict(c1, h, in.closeOk) ELSE c1
      c3 == [c2 EXCEPT !.ev = Append(@, Ev("creds", NoSession, in.credsOk))]
      c4 == Connect(c3, h, in.conn)
  IN IF conns[h] # NoSession /\ in.probeOk THEN [c1 EXCEPT !.ret = conns[h]]
     ELSE IF ~in.credsOk
     THEN [c3 EXCEPT !.printed = [kind |-> "creds", host |-> NoHost, cause |-> "-", wrapped |-> FALSE],
                     !.raised = [kind |-> "creds", host |-> NoHost, cause |-> "-", wrapped |-> FALSE]]
     ELSE IF in.conn = "ok" THEN Store(c4, h)
     ELSE [c4 EXCEPT !.printed = [kind |-> "connect", host |-> h, cause |-> in.conn, wrapped |-> TRUE],
                     !.raised = [kind |-> "connect", host |-> NoHost, cause |-> in.conn, wrapped |-> FALSE]]

\* acquire(host) of the process' pool.
acquire(i, conns, sess, h, in) ==
  CASE i = "central" -> CM_get_connection(conns, sess, h, in)
    [] i = "bulk" -> Local_get_connection(conns, sess, h, in)
    [] i = "fdb" -> Fdb_get_ssh_connection(conns, sess, h, in)
    [] i = "template" -> Tpl_get_ssh_connection(conns, sess, h, in)

\* ---------------------------------------------------------------- close_all

\* The hosts that are keys of the pool.
Cached(conns) == {h \in Hosts : conns[h] # NoSession}

EmptyPool == [h \in Hosts |-> NoSession]

\* for host, ssh_client in connections.items(): try close() except: pass
\* (okHosts: the hosts whose close() does not raise; the dict's iteration order
\* is not tracked, no caller depends on it).
RECURSIVE CloseEach(_, _, _)
CloseEach(c, hs, okHosts) ==
  IF hs = {} THEN c
  ELSE LET h == CHOOSE x \in hs : TRUE
       IN CloseEach([c EXCEPT !.sess = CloseSession(@, c.conns[h], h \in okHosts),
                              !.ev = Append(@, Ev("close", c.conns[h], h \in okHosts))],
                    hs \ {h}, okHosts)

\* A close_all that lets the first failing close() escape: the clear() is skipped.
CM_close_allMutantStopAtFailure(conns, sess, okHosts) ==
  LET c == CloseEach(Call(conns, sess), Cached(conns), okHosts)
  IN IF Cached(conns) \subseteq okHosts
     THEN [c EXCEPT !.conns = EmptyPool, !.ev = Append(@, Ev("clear", NoSession, TRUE))]
     ELSE [c EXCEPT !.raised = [kind |-> "close", host |-> NoHost, cause |-> "-", wrapped |-> FALSE]]

\* main.py ConnectionManager.close_all
CM_close_all(conns, sess, okHosts) ==
  LET c == CloseEach(Call(conns, sess), Cached(conns), okHosts)
  IN [c EXCEPT !.conns = EmptyPool, !.ev = Append(@, Ev("clear", NoSession, TRUE))]

\* BulkCommands LocalConnectionManager.close_all
Local_close_all(conns, sess, okHosts) ==
  LET c == CloseEach(Call(conns, sess), Cached(conns), okHosts)
  IN [c EXCEPT !.conns = EmptyPool, !.ev = Append(@, Ev("clear", NoSession, TRUE))]

\* FDBSearching close_all_connections
Fdb_close_all_connections(conns, sess, okHosts) ==
  LET c == CloseEach(Call(conns, sess), Cached(conns), okHosts)
  IN [c EXCEPT !.conns = EmptyPool, !.ev = Append(@, Ev("clear", NoSession, TRUE))]

\* "ssh connection template" close_all_connections
Tpl_close_all_connections(conns, sess, okHosts) ==
  LET c == CloseEach(Call(conns, sess), Cached(conns), okHosts)
  IN [c EXCEPT !.conns = EmptyPool, !.ev = Append(@, Ev("clear", NoSession, TRUE))]

\* release_all() of the process' pool.
release_all(i, conns, sess, okHosts) ==
  CASE i = "central" -> CM_close_all(conns, sess, okHosts)
    [] i = "bulk" -> Local_close_all(conns, sess, okHosts)
    [] i = "fdb" -> Fdb_close_all_connections(conns, sess, okHosts)
    [] i = "template" -> Tpl_close_all_connections(conns, sess, okHosts)

\* ----------------------------------------------------------- close_connection

\* main.py ConnectionManager.close_connection: close() and del share one try,
\* so a close() that raises skips the del; the error is printed, not raised.
CM_close_connection(conns, sess, h, closeOk) ==
  LET c0 == Call(conns, sess)
      c1 == [c0 EXCEPT !.sess = CloseSession(@, conns[h], closeOk),
                       !.ev = Append(@, Ev("close", conns[h], closeOk))]
  IN IF conns[h] = NoSession THEN c0
     ELSE IF closeOk
     THEN [c1 EXCEPT !.conns[h] = NoSession,
                     !.ev = Append(@, Ev("del", conns[h], TRUE))]
     ELSE [c1 EXCEPT !.printed = [kind |-> "close", host |-> h, cause |-> "-", wrapped |-> TRUE]]

\* ------------------------------------------------------------ applying a call

\* No probe of the call failed.
ProbesOk(ev) == \A i \in EvOps(ev, "probe") : ev[i].ok

LastOf(op, h, r, conns, heldPre) ==
  [op |-> op, host |-> h, ev |-> r.ev, ret |-> r.ret, raised |-> r.raised,
   printed |-> r.printed, pre |-> conns, heldPre |-> heldPre]

\* The pool after get_connection(h) ended with r.
Acquired(h, r) ==
  /\ connections' = r.conns
  /\ sessions' = r.sess
  /\ last' = LastOf("acquire", h, r, connections, held[h])
  /\ held' = [held EXCEPT ![h] = IF r.raised.kind = "none" THEN r.ret ELSE NoSession]
  /\ UNCHANGED <<impl, retired>>

\* The pool after close_connection(h) ended with r.
Released(h, r) ==
  /\ connections' = r.conns
  /\ sessions' = r.sess
  /\ last' = LastOf("release", h, r, connections, held[h])
  /\ held' = [held EXCEPT ![h] = NoSession]
  /\ UNCHANGED <<impl, retired>>

\* The pool after close_all() ended with r.
ReleasedAll(r) ==
  /\ connections' = r.conns
  /\ sessions' = r.sess
  /\ last' = LastOf("release_all", NoHost, r, connections, NoSession)
  /\ held' = EmptyPool
  /\ retired' = retired \cup {connections[h] : h \in Cached(connections)}
  /\ UNCHANGED impl

\* The inputs the environment can give an acquire of h in the current state: a
\* probe or an exec_command returns only on a live session, and a connect succeeds
\* only below the bound. An outcome the call never asks for (the close() when
\* nothing is evicted, the credentials read and the connect() when the cached
\* session is returned) is fixed, so that one call is one transition.
CanGive(h, in) ==
  LET cached == connections[h] # NoSession
      reuse == cached /\ (impl = "bulk" \/ in.probeOk)
  IN /\ in.probeOk => cached /\ impl # "bulk" /\ CanExec(sessions, connections[h])
     /\ ~in.closeOk => cached /\ impl # "bulk"
     /\ ~in.credsOk => impl \in {"fdb", "template"} /\ ~reuse
     /\ (reuse \/ ~in.credsOk) => in.conn = "timeout"
     /\ in.conn = "ok" => Len(sessions) < (IF pc = "lib" THEN MaxSessions ELSE MaxRunSessions)

\* ------------------------------------------------------ the pool as a library

NoStats == [total |-> 0, success |-> 0, errors |-> 0, connection_failed |-> FALSE]

NoOverall ==
  [processed |-> 0, connection_failures |-> 0, total_commands |-> 0,
   total_success |-> 0, total_errors |-> 0]

NoBatch ==
  [switches |-> <<>>, ncmds |-> 0, si |-> 0, ci |-> 0, ssh |-> NoSession,
   acquired |-> FALSE, attempted |-> <<>>, logFailed |-> FALSE, stats |-> NoStats,
   overall |-> NoOverall, ended |-> "no"]

NoCall ==
  [op |-> "none", host |-> NoHost, ev |-> <<>>, ret |-> NoSession, raised |-> NoError,
   printed |-> NoError, pre |-> EmptyPool, heldPre |-> NoSession]

InitPool ==
  /\ connections = EmptyPool
  /\ sessions = <<>>
  /\ last = NoCall
  /\ retired = {}
  /\ held = EmptyPool

Init ==
  /\ impl \in Impl
  /\ InitPool
  /\ pc = "lib"
  /\ exitCode = "running"
  /\ batch = NoBatch
  /\ runlog = <<>>
  /\ IdleBut({})

\* get_connection(h) / get_ssh_connection(h, pool)
DoAcquire(h) ==
  \E in \in AcquireInputs :
    /\ CanGive(h, in)
    /\ Acquired(h, acquire(impl, connections, sessions, h, in))
    /\ UNCHANGED runVars
    /\ UNCHANGED toolVars

\* close_connection(h): only the central ConnectionManager has it.
DoRelease(h) ==
  /\ impl = "central"
  /\ \E closeOk \in BOOLEAN :
       Released(h, CM_close_connection(connections, sessions, h, closeOk))
  /\ UNCHANGED runVars
  /\ UNCHANGED toolVars

\* close_all() / close_all_connections(pool)
DoReleaseAll ==
  /\ \E okHosts \in SUBSET Cached(connections) :
       ReleasedAll(release_all(impl, connections, sessions, okHosts))
  /\ UNCHANGED runVars
  /\ UNCHANGED toolVars

\* The far end drops a session the pool holds: every later exec_command on it
\* raises. (A session no longer in the pool is never used again.)
Die(s) ==
  /\ s \in 1..Len(sessions)
  /\ sessions[s].st = "live"
  /\ \E h \in Hosts : connections[h] = s
  /\ sessions' = [sessions EXCEPT ![s].st = "dead"]
  /\ held' = [h \in Hosts |-> IF held[h] = s THEN NoSession ELSE held[h]]
  /\ UNCHANGED <<impl, connections, last, retired>>
  /\ UNCHANGED runVars
  /\ UNCHANGED toolVars

Next ==
  \/ \E h \in Hosts : DoAcquire(h)
  \/ \E h \in Hosts : DoRelease(h)
  \/ DoReleaseAll
  \/ \E s \in 1..MaxSessions : Die(s)

Spec == Init /\ [][Next]_vars

\* ------------------------------------------------------------ the batch runner

\* The switches.csv column: a non-empty list of hosts, duplicates kept.
SwitchLists == UNION {[1..n -> Hosts] : n \in 1..MaxSwitches}

\* What ssh.exec_command and the reads of its output can do.
CmdOutcomes == {"ok", "stderr", "timeout", "exception"}

\* run_bulk_commands, "Update overall stats": the totals after one
\* process_switch call returned st.
UpdateOverall(o, st) ==
  [processed |-> o.processed + 1,
   connection_failures |-> o.connection_failures + (IF st.connection_failed THEN 1 ELSE 0),
   total_commands |-> o.total_commands + st.total,
   total_success |-> o.total_success + st.success,
   total_errors |-> o.total_errors + st.errors]

\* process_switch returned st for the current switch: the loop of
\* run_bulk_commands takes the totals and moves to the next switch.
ReturnStats(b, st) ==
  /\ batch' = [b EXCEPT !.stats = st, !.overall = UpdateOverall(b.overall, st),
                        !.si = b.si + 1, !.ci = 0, !.ssh = NoSession]
  /\ runlog' = Append(runlog, [host |-> b.switches[b.si], acquired |-> b.acquired,
                               attempted |-> b.attempted, logFailed |-> b.logFailed,
                               stats |-> st])
  /\ pc' = "host"
  /\ exitCode' = exitCode

\* The counters of process_switch after one command ended with outcome and the
\* inner handler ran (logOk: log_command_execution did not raise).
CountCommand(st, outcome, logOk) ==
  LET t == [st EXCEPT !.total = @ + 1]
      u == IF outcome = "ok" THEN [t EXCEPT !.success = @ + 1]
           ELSE [t EXCEPT !.errors = @ + 1]
  IN IF logOk THEN u ELSE [u EXCEPT !.errors = @ + 1]

\* The process ends through close_all().
ExitWithCleanup(code) ==
  /\ \E okHosts \in SUBSET Cached(connections) :
       ReleasedAll(release_all(impl, connections, sessions, okHosts))
  /\ pc' = "done"
  /\ exitCode' = code

\* The process ends with the pool left as it is.
ExitNoCleanup(code) ==
  /\ pc' = "done"
  /\ exitCode' = code
  /\ UNCHANGED poolVars

\* An exception other than KeyboardInterrupt leaves run_bulk_commands: the
\* central menu's run_bulk_update catches it and returns to the menu; the
\* standalone main() runs its finally (close_all) and exits 1.
BatchRaises ==
  /\ batch' = [NoBatch EXCEPT !.ended = "error"]
  /\ runlog' = <<>>
  /\ IF impl = "central"
     THEN pc' = "menu" /\ exitCode' = exitCode /\ UNCHANGED poolVars
     ELSE ExitWithCleanup("1")

\* Menu option 3 of main.py, or the standalone main(): run_bulk_commands loads
\* both CSV columns and starts the loop over the switches.
StartBatch ==
  /\ pc = "menu"
  /\ impl \in {"central", "bulk"}
  /\ \E sw \in SwitchLists, n \in 1..MaxCommands :
       batch' = [NoBatch EXCEPT !.switches = sw, !.ncmds = n, !.si = 1]
  /\ runlog' = <<>>
  /\ pc' = "host"
  /\ exitCode' = exitCode
  /\ UNCHANGED poolVars
  /\ UNCHANGED toolVars

\* One iteration of the loop of run_bulk_commands up to the first command:
\* get_log_file_path (mkdir, outside every try), then process_switch:
\* get_connection and write_log_header inside its outer try.
ProcessSwitchBegin ==
  /\ pc = "host"
  /\ batch.si <= Len(batch.switches)
  /\ LET h == batch.switches[batch.si]
         b == [batch EXCEPT !.stats = NoStats, !.attempted = <<>>, !.acquired = FALSE,
                            !.logFailed = FALSE]
     IN \E pathOk \in BOOLEAN, headerOk \in BOOLEAN, in \in AcquireInputs :
          /\ CanGive(h, in)
          /\ ~pathOk => headerOk /\ in = [probeOk |-> FALSE, closeOk |-> TRUE,
                                          credsOk |-> TRUE, conn |-> "timeout"]
          /\ IF ~pathOk
             THEN BatchRaises
             ELSE LET r == acquire(impl, connections, sessions, h, in)
                  IN /\ Acquired(h, r)
                     /\ r.raised.kind # "none" => headerOk
                     /\ IF r.raised.kind # "none"
                        \* except Exception: connection_failed = True
                        THEN ReturnStats(b, [NoStats EXCEPT !.connection_failed = TRUE])
                        ELSE IF ~headerOk
                        \* write_log_header raised: the same handler
                        THEN ReturnStats([b EXCEPT !.acquired = TRUE, !.logFailed = TRUE],
                                         [NoStats EXCEPT !.connection_failed = TRUE])
                        ELSE /\ batch' = [b EXCEPT !.acquired = TRUE, !.ssh = r.ret, !.ci = 1]
                             /\ pc' = "cmd"
                             /\ UNCHANGED <<runlog, exitCode>>
  /\ UNCHANGED toolVars

\* One iteration of the loop over the commands in process_switch:
\* execute_command (which never raises), the counters, log_command_execution;
\* when that raises, the inner handler counts an error and logs again, and a
\* second raise reaches the outer handler of process_switch.
ExecCommand ==
  /\ pc = "cmd"
  /\ \E outcome \in CmdOutcomes, logOk \in BOOLEAN, logAgainOk \in BOOLEAN :
       /\ outcome \in {"ok", "stderr"} => CanExec(sessions, batch.ssh)
       /\ logOk => logAgainOk
       /\ LET st == CountCommand(batch.stats, outcome, logOk)
              b == [batch EXCEPT !.attempted = Append(@, batch.ci),
                                 !.logFailed = @ \/ ~logOk]
          IN IF ~logOk /\ ~logAgainOk
             THEN ReturnStats(b, [st EXCEPT !.connection_failed = TRUE])
             ELSE /\ batch' = [b EXCEPT !.stats = st, !.ci = @ + 1]
                  /\ pc' = IF batch.ci = batch.ncmds THEN "footer" ELSE "cmd"
                  /\ UNCHANGED <<runlog, exitCode>>
  /\ UNCHANGED poolVars
  /\ UNCHANGED toolVars

\* The end of process_switch: write_log_footer inside the outer try, return.
FinishSwitch ==
  /\ pc = "footer"
  /\ \E footerOk \in BOOLEAN :
       ReturnStats([batch EXCEPT !.logFailed = @ \/ ~footerOk],
                   [batch.stats EXCEPT !.connection_failed = ~footerOk])
  /\ UNCHANGED poolVars
  /\ UNCHANGED toolVars

\* A run_bulk_commands that closes every pooled session when it returns to
\* the central menu.
BatchSummaryMutantClosesAll ==
  /\ pc = "host"
  /\ batch.si > Len(batch.switches)
  /\ batch' = [NoBatch EXCEPT !.ended = "summary"]
  /\ runlog' = <<>>
  /\ IF impl = "central"
     THEN /\ pc' = "menu" /\ exitCode' = exitCode
          /\ ReleasedAll(release_all(impl, connections, sessions, Cached(connections)))
     ELSE ExitWithCleanup("0")
  /\ UNCHANGED toolVars

\* The loop is over: the summary is printed and run_bulk_commands returns, to
\* the menu (integrated.run_interactive) or to the finally of the standalone main().
BatchSummary ==
  /\ pc = "host"
  /\ batch.si > Len(batch.switches)
  /\ batch' = [NoBatch EXCEPT !.ended = "summary"]
  /\ runlog' = <<>>
  /\ IF impl = "central"
     THEN pc' = "menu" /\ exitCode' = exitCode /\ UNCHANGED poolVars
     ELSE ExitWithCleanup("0")
  /\ UNCHANGED toolVars

\* ------------------------------------------------------------ the entry points

\* Menu option 5 of main.py, run_interactive_session: returns at once when the
\* pool is empty; else get_connection(host) for the host typed in, any error
\* printed, then commands on that session until "exit".
MenuInteractive(h) ==
  /\ pc = "menu" /\ impl = "central"
  /\ Cached(connections) # {}
  /\ \E in \in AcquireInputs :
       /\ CanGive(h, in)
       /\ Acquired(h, acquire(impl, connections, sessions, h, in))
  /\ UNCHANGED runVars
  /\ UNCHANGED toolVars

\* Menu option 7 of main.py, MainMenu.close_connection: one of the listed hosts.
MenuClose(h) ==
  /\ pc = "menu" /\ impl = "central"
  /\ h \in Cached(connections)
  /\ \E closeOk \in BOOLEAN :
       Released(h, CM_close_connection(connections, sessions, h, closeOk))
  /\ UNCHANGED runVars
  /\ UNCHANGED toolVars

\* Menu option 8 of main.py: exit_program closes all connections, run() returns.
MenuExit ==
  /\ pc = "menu" /\ impl = "central"
  /\ ExitWithCleanup("0")
  /\ UNCHANGED <<batch, runlog>>
  /\ UNCHANGED toolVars

\* FDBSearching mode 1 or 2: get_ssh_connection for the address typed in; the
\* mode's loop prints any error and goes on.
FdbLookup(h) ==
  /\ pc = "menu" /\ impl = "fdb"
  /\ \E in \in AcquireInputs :
       /\ CanGive(h, in)
       /\ Acquired(h, acquire(impl, connections, sessions, h, in))
  /\ UNCHANGED runVars
  /\ UNCHANGED toolVars

\* FDBSearching choice 3: break, then the finally of main().
FdbExit ==
  /\ pc = "menu" /\ impl = "fdb"
  /\ ExitWithCleanup("0")
  /\ UNCHANGED <<batch, runlog>>
  /\ UNCHANGED toolVars

\* Ctrl-C at a prompt or during a tool. main.py catches KeyboardInterrupt
\* around menu.run(), closes all and exits 0; the standalone tools run their
\* finally and the KeyboardInterrupt leaves main().
Interrupt ==
  /\ pc \in {"menu", "host", "cmd", "footer"}
  /\ ExitWithCleanup(IF impl = "central" THEN "0" ELSE "uncaught")
  /\ batch' = [NoBatch EXCEPT !.ended = IF pc = "menu" THEN batch.ended ELSE "interrupt"]
  /\ runlog' = <<>>
  /\ UNCHANGED toolVars

\* An exception that is not a KeyboardInterrupt at a prompt of the menu loop
\* (input() raises EOFError when stdin ends). main.py catches only
\* KeyboardInterrupt: the error leaves main(). FDBSearching runs its finally.
UnexpectedError ==
  /\ pc = "menu"
  /\ impl \in {"central", "fdb"}
  /\ IF impl = "central" THEN ExitNoCleanup("uncaught") ELSE ExitWithCleanup("uncaught")
  /\ UNCHANGED <<batch, runlog>>
  /\ UNCHANGED toolVars

InitRun ==
  /\ impl \in {"central", "bulk", "fdb"}
  /\ InitPool
  /\ pc = "menu"
  /\ exitCode = "running"
  /\ batch = NoBatch
  /\ runlog = <<>>
  /\ IdleBut({})

NextRun ==
  \/ StartBatch
  \/ ProcessSwitchBegin
  \/ ExecCommand
  \/ FinishSwitch
  \/ BatchSummary
  \/ \E h \in Hosts : MenuInteractive(h)
  \/ \E h \in Hosts : MenuClose(h)
  \/ MenuExit
  \/ \E h \in Hosts : FdbLookup(h)
  \/ FdbExit
  \/ Interrupt
  \/ UnexpectedError
  \/ \E s \in 1..MaxRunSessions : Die(s)

SpecRun == InitRun /\ [][NextRun]_vars

\* ==================================================================== claims
\* The claims about the pool, checked under Spec.

SessionIds == 1..Len(sessions)

\* The open sessions of host h.
OpenOf(h) == {s \in SessionIds : sessions[s].host = h /\ Open(sessions, s)}

IsAcquire == last.op = "acquire"

\* The last call's failed probe, connect events.
ProbeFailed == \E i \in EvOps(last.ev, "probe") : ~last.ev[i].ok

ConnectFailed == \E i \in EvOps(last.ev, "connect") : ~last.ev[i].ok

\* Every host but the last call's has the entry it had before the call.
OthersUnchanged == \A o \in Hosts \ {last.host} : connections[o] = last.pre[o]

\* C1 as stated: in every reachable state each host has at most one session
\* that is opened and not yet closed.
C1_AtMostOneOpenSessionPerHost ==
  \A h \in Hosts : Cardinality(OpenOf(h)) <= 1

\* C1 amended: each host has at most one open session on which close() was
\* never called, and that one is the host's pool entry; every open session
\* outside the pool is one whose close() was attempted (and raised, the
\* exception swallowed). A pool entry always belongs to its host key.
C1_OpenOutsidePoolHadCloseAttempt ==
  /\ \A s \in SessionIds :
       (Open(sessions, s) /\ connections[sessions[s].host] # s) => sessions[s].closeCalled
  /\ \A h \in Hosts :
       connections[h] # NoSession =>
         connections[h] \in SessionIds /\ sessions[connections[h]].host = h

\* A dead cached session was evicted with a close() that raised and replaced:
\* two open sessions of one host.
C1_Witness ==
  \E h \in Hosts : \E s \in OpenOf(h) :
    /\ connections[h] # NoSession /\ connections[h] # s
    /\ Open(sessions, connections[h])
    /\ IsAcquire /\ last.host = h /\ last.ret = connections[h]

\* C2: when acquire(H) succeeded and nothing failed, released or died since, the
\* next acquire(H) whose probe does not fail returns the same session, connects
\* nothing, and (in the pools that probe, see C3) its only step is the probe of
\* that session, issued before the return.
C2_ReacquireReturnsSameSession ==
  (IsAcquire /\ last.heldPre # NoSession /\ ~ProbeFailed) =>
    /\ last.ret = last.heldPre
    /\ last.raised = NoError
    /\ EvOps(last.ev, "connect") = {}
    /\ connections = last.pre
    /\ impl # "bulk" => last.ev = <<Ev("probe", last.heldPre, TRUE)>>

C2_Witness ==
  /\ impl = "central" /\ IsAcquire
  /\ last.heldPre # NoSession /\ last.ret = last.heldPre
  /\ last.ev = <<Ev("probe", last.heldPre, TRUE)>>

\* C3 as stated: every one of the four pools probes a cached session before
\* returning it, and evicts it (close, del) when the probe fails.
C3_EveryPoolProbesCachedSession ==
  (IsAcquire /\ last.pre[last.host] # NoSession) =>
    /\ Len(last.ev) >= 1
    /\ last.ev[1].op = "probe" /\ last.ev[1].arg = last.pre[last.host]
    /\ last.ret = last.pre[last.host] => last.ev[1].ok
    /\ ~last.ev[1].ok =>
         /\ Len(last.ev) >= 3
         /\ last.ev[2].op = "close" /\ last.ev[2].arg = last.pre[last.host]
         /\ last.ev[3].op = "del"
         /\ connections[last.host] # last.pre[last.host]

\* C3 for the three pools that do probe (main.py, FDBSearching, the template).
C3_PoolsOtherThanLocalProbe ==
  impl # "bulk" => C3_EveryPoolProbesCachedSession

\* C4: an acquire probes at most once and connects at most once; after a failed
\* probe it closes the cached session, removes it, and then connects exactly once
\* (the pools with stored credentials: main.py's and BulkCommands'), or reads
\* the credentials file and connects once unless that read fails (FDBSearching,
\* the template).
C4_OneEvictOneConnect ==
  IsAcquire =>
    /\ Cardinality(EvOps(last.ev, "probe")) <= 1
    /\ Cardinality(EvOps(last.ev, "connect")) <= 1
    /\ ProbeFailed =>
         LET old == last.pre[last.host]
         IN /\ Len(last.ev) >= 4
            /\ last.ev[1] = Ev("probe", old, FALSE)
            /\ last.ev[2].op = "close" /\ last.ev[2].arg = old
            /\ last.ev[3] = Ev("del", old, TRUE)
            /\ sessions[old].closeCalled
            /\ connections[last.host] # old
            /\ IF impl \in {"central", "bulk"}
               THEN last.ev[4].op = "connect"
               ELSE /\ last.ev[4].op = "creds"
                    /\ last.ev[4].ok <=> Cardinality(EvOps(last.ev, "connect")) = 1

C4_Witness ==
  /\ impl = "central" /\ IsAcquire /\ ProbeFailed
  /\ Cardinality(EvOps(last.ev, "connect")) = 1
  /\ ConnectFailed

\* C5 as stated: a failed connect makes acquire(H) raise an error that wraps the
\* underlying error together with the host; no entry for H, others unchanged.
C5_ConnectFailureRaisesWrapped ==
  (IsAcquire /\ ConnectFailed) =>
    /\ last.raised.kind = "connect"
    /\ last.raised.wrapped /\ last.raised.host = last.host
    /\ \E i \in EvOps(last.ev, "connect") : last.raised.cause = last.ev[i].err
    /\ connections[last.host] = NoSession
    /\ OthersUnchanged

\* C5 amended: a failed connect makes acquire(H) raise, the pool holds no entry
\* for H afterwards (also after an eviction) and the other entries are unchanged.
\* LocalConnectionManager raises a new error whose message holds the host and
\* the underlying message; ConnectionManager prints that message and re-raises
\* the underlying error unchanged; FDBSearching and the template let the
\* underlying error through (the template logs the host).
C5_ConnectFailureRaisesNotCached ==
  (IsAcquire /\ ConnectFailed) =>
    /\ last.raised.kind = "connect"
    /\ \E i \in EvOps(last.ev, "connect") : last.raised.cause = last.ev[i].err
    /\ last.ret = NoSession
    /\ connections[last.host] = NoSession
    /\ OthersUnchanged
    /\ impl = "bulk" => last.raised.wrapped /\ last.raised.host = last.host
    /\ impl # "bulk" => ~last.raised.wrapped /\ last.raised.host = NoHost
    /\ impl \in {"central", "template"} =>
         /\ last.printed.host = last.host
         /\ last.printed.cause = last.raised.cause

\* A connect fails right after the eviction of a dead cached session, while
\* another host has an entry.
C5_Witness ==
  /\ IsAcquire /\ ConnectFailed /\ ProbeFailed
  /\ last.pre[last.host] # NoSession
  /\ \E o \in Hosts \ {last.host} : connections[o] # NoSession

\* C6: release_all() calls close() on every cached session, raises nothing
\* whichever closes fail, and leaves the pool empty; no session that a
\* release_all removed is ever in the pool or returned by an acquire again, and
\* an acquire on the emptied pool connects a fresh session.
C6_ReleaseAllEmptiesPool ==
  /\ last.op = "release_all" =>
       /\ connections = EmptyPool
       /\ last.raised = NoError
       /\ \A h \in Cached(last.pre) :
            /\ \E i \in EvOps(last.ev, "close") : last.ev[i].arg = last.pre[h]
            /\ sessions[last.pre[h]].closeCalled
  /\ \A h \in Hosts : connections[h] \notin retired
  /\ (IsAcquire /\ last.ret # NoSession) =>
       /\ last.ret \notin retired
       /\ last.pre[last.host] = NoSession =>
            \E i \in EvOps(last.ev, "connect") : last.ev[i].ok /\ last.ev[i].arg = last.ret

\* After a release_all in which the close() of H's session raised, acquire(H)
\* returned a new session.
C6_Witness ==
  /\ IsAcquire /\ last.ret # NoSession
  /\ \E s \in retired :
       sessions[s].host = last.host /\ Open(sessions, s) /\ sessions[s].closeCalled

\* C7 as stated: after release(H) the pool has no entry for H (also when the
\* close failed), the other entries are unchanged, nothing is raised, and the
\* call does nothing when H was absent.
C7_ReleaseRemovesHost ==
  last.op = "release" =>
    /\ connections[last.host] = NoSession
    /\ OthersUnchanged
    /\ last.raised = NoError
    /\ last.pre[last.host] = NoSession => last.ev = <<>>
    /\ last.pre[last.host] # NoSession =>
         \E i \in EvOps(last.ev, "close") : last.ev[i].arg = last.pre[last.host]

\* The claims about the entry points and the batch runner, checked under SpecRun.

\* The commands of the current batch, in list order.
AllCommands == [j \in 1..batch.ncmds |-> j]

\* C8 as stated: however an entry point terminates (Exit, Ctrl-C, an unexpected
\* error), the pool is empty and close() was called on every session.
C8_EveryExitClosesAllSessions ==
  pc = "done" =>
    /\ connections = EmptyPool
    /\ \A s \in SessionIds : sessions[s].closeCalled

\* C8 without the path that breaks it: every termination other than an
\* exception that is not a KeyboardInterrupt leaving the central menu's loop.
C8_ExitsWithCleanup ==
  (pc = "done" /\ ~(impl = "central" /\ exitCode = "uncaught")) =>
    /\ connections = EmptyPool
    /\ \A s \in SessionIds : sessions[s].closeCalled
    /\ last.op = "release_all"

\* C9 as stated: a host whose acquire failed has exactly one connection failure
\* and no command executed or counted; every host whose acquire succeeded has
\* all N commands executed and counted and no connection failure.
C9_FailedHostSkippedOthersComplete ==
  /\ \A i \in 1..Len(runlog) :
       IF runlog[i].acquired
       THEN /\ ~runlog[i].stats.connection_failed
            /\ runlog[i].attempted = AllCommands
            /\ runlog[i].stats.total = batch.ncmds
       ELSE /\ runlog[i].stats.connection_failed
            /\ runlog[i].attempted = <<>>
            /\ runlog[i].stats.total = 0
  /\ pc \in {"host", "cmd", "footer"} =>
       batch.overall.connection_failures =
         Cardinality({i \in 1..Len(runlog) : ~runlog[i].acquired})

\* C9 for the hosts whose log file could be written at every attempt.
C9_WhenLogWritable ==
  \A i \in 1..Len(runlog) :
    ~runlog[i].logFailed =>
      IF runlog[i].acquired
      THEN /\ ~runlog[i].stats.connection_failed
           /\ runlog[i].attempted = AllCommands
           /\ runlog[i].stats.total = batch.ncmds
      ELSE /\ runlog[i].stats.connection_failed
           /\ runlog[i].attempted = <<>>
           /\ runlog[i].stats.total = 0

\* C10 as stated: no failure ends the run early; the hosts are processed once
\* each in list order, and on every host whose session was acquired every
\* command is attempted once, in list order.
C10_NoFailureAbortsBatch ==
  /\ pc \in {"host", "cmd", "footer"} =>
       /\ Len(runlog) = batch.si - 1
       /\ \A i \in 1..Len(runlog) : runlog[i].host = batch.switches[i]
  /\ \A i \in 1..Len(runlog) :
       runlog[i].acquired => runlog[i].attempted = AllCommands

\* C10 while the log directory can be made and the log file written: the loop
\* of run_bulk_commands ends only after the last switch.
C10_WhenLogWritable ==
  /\ pc \in {"host", "cmd", "footer"} =>
       /\ Len(runlog) = batch.si - 1
       /\ \A i \in 1..Len(runlog) : runlog[i].host = batch.switches[i]
       /\ batch.attempted = [j \in 1..Len(batch.attempted) |-> j]
  /\ \A i \in 1..Len(runlog) :
       (runlog[i].acquired /\ ~runlog[i].logFailed) => runlog[i].attempted = AllCommands

\* =================================================== the parts without a pool

\* The pool and the entry point of the specifications below: not running.
PoolIdle ==
  /\ impl = "central"
  /\ InitPool
  /\ pc = "lib"
  /\ exitCode = "running"
  /\ batch = NoBatch
  /\ runlog = <<>>

\* ------------------------------------- BulkCommands: the outcome of a command

TimedOutMsg == "Command execution timed out"
\* str(e) of the OSError of a log write.
LogErrMsg == "No space left on device"

\* What the session does with one command: where it raises, if anywhere
\* (exec_command, stdout.read, stderr.read), what it raises (msg: str(e) of an
\* exception that is not socket.timeout), what the reads give once decoded.
ExecInputs ==
  [at : {"none", "exec_command", "stdout", "stderr"}, exc : {"socket.timeout", "other"},
   msg : {"", "Channel closed"}, out : {"", "text"}, err : {"", "text"}]

\* Inputs that differ only in parts the call never reads are one input.
ExecCanGive(in) ==
  /\ in.at = "none" => in.exc = "other" /\ in.msg = ""
  /\ in.at # "none" => in.out = "" /\ in.err = ""
  /\ in.exc = "socket.timeout" => in.msg = ""

\* execute_command: (output, error, success); exec_time is left out.
execute_command(in) ==
  IF in.at = "none"
  THEN [output |-> in.out, error |-> in.err, success |-> TRUE]
  ELSE IF in.exc = "socket.timeout"
  THEN [output |-> "", error |-> TimedOutMsg, success |-> FALSE]
  ELSE [output |-> "", error |-> in.msg, success |-> FALSE]

\* process_switch, the if / elif / else on (success, error).
CommandStatus(ret) ==
  IF ret.success /\ ret.error = "" THEN "Success"
  ELSE IF ret.success THEN "Completed with errors"
  ELSE "Failed"

\* The mark printed with each status.
StatusMark(status) ==
  IF status = "Success" THEN "ok"
  ELSE IF status = "Completed with errors" THEN "warn"
  ELSE "fail"

\* One iteration of the loop over the commands in process_switch: total += 1,
\* execute_command, the status with its counter and its mark, then
\* log_command_execution; when that raises the handler of the inner try counts
\* an error, prints the failure mark and logs "Failed" with the exception's
\* text; when this second write raises too the exception leaves the loop.
ProcessCommand(st, in, logOk, logAgainOk) ==
  LET ret == execute_command(in)
      status == CommandStatus(ret)
      t == [st EXCEPT !.total = @ + 1]
      u == IF status = "Success" THEN [t EXCEPT !.success = @ + 1]
           ELSE [t EXCEPT !.errors = @ + 1]
      entry == [status |-> status, output |-> ret.output, error |-> ret.error]
      again == [status |-> "Failed", output |-> "", error |-> LogErrMsg]
  IN IF logOk
     THEN [ret |-> ret, status |-> status, stats |-> u, marks |-> <<StatusMark(status)>>,
           logged |-> <<entry>>, logFailed |-> FALSE, raised |-> FALSE]
     ELSE [ret |-> ret, status |-> status, stats |-> [u EXCEPT !.errors = @ + 1],
           marks |-> <<StatusMark(status), "fail">>,
           logged |-> IF logAgainOk THEN <<again>> ELSE <<>>,
           logFailed |-> TRUE, raised |-> ~logAgainOk]

\* process_switch after get_connection and the header: no command run yet.
InitCmd ==
  /\ PoolIdle
  /\ IdleBut({"cmd"})
  /\ \E n \in 1..MaxCommands :
       cmd = [ncmds |-> n, stats |-> NoStats, done |-> <<>>, ended |-> FALSE]

\* The next command of the list is executed, counted and logged.
RunCommand ==
  /\ ~cmd.ended
  /\ Len(cmd.done) < cmd.ncmds
  /\ \E in \in ExecInputs, logOk \in BOOLEAN, logAgainOk \in BOOLEAN :
       /\ ExecCanGive(in)
       /\ logOk => logAgainOk
       /\ LET r == ProcessCommand(cmd.stats, in, logOk, logAgainOk)
          IN cmd' = [cmd EXCEPT !.stats = r.stats,
                                !.done = Append(@, [in |-> in, before |-> cmd.stats, r |-> r]),
                                !.ended = r.raised]
  /\ UNCHANGED <<poolVars, runVars, logfs, fdbc, ver, upd, vcache, sel, cred, moreVars>>

\* After the last command: write_log_footer and return stats.
EndCommands ==
  /\ ~cmd.ended
  /\ Len(cmd.done) = cmd.ncmds
  /\ cmd' = [cmd EXCEPT !.ended = TRUE]
  /\ UNCHANGED <<poolVars, runVars, logfs, fdbc, ver, upd, vcache, sel, cred, moreVars>>

NextCmd ==
  \/ RunCommand
  \/ EndCommands

SpecCmd == InitCmd /\ [][NextCmd]_vars

\* The commands processed so far.
Done == {cmd.done[i] : i \in 1..Len(cmd.done)}

\* The outcome the claim gives a command: by what the call did.
ExpectedStatus(in) ==
  IF in.at # "none" THEN "Failed"
  ELSE IF in.err = "" THEN "Success"
  ELSE "Completed with errors"

\* C11 as stated: every executed command gets exactly one outcome: Success when
\* the call returned with empty stderr, Completed with errors when it returned
\* with stderr, Failed when it raised or timed out (message "Command execution
\* timed out" for a timeout, the exception's text otherwise); one counter goes
\* up by one, one mark is printed, and no log entry carries another status.
C11_ExactlyOneOutcome ==
  \A d \in Done :
    /\ d.r.status = ExpectedStatus(d.in)
    /\ d.in.at # "none" =>
         d.r.ret.error = IF d.in.exc = "socket.timeout" THEN TimedOutMsg ELSE d.in.msg
    /\ d.r.stats.success + d.r.stats.errors = d.before.success + d.before.errors + 1
    /\ d.r.stats.success = d.before.success + (IF d.r.status = "Success" THEN 1 ELSE 0)
    /\ d.r.marks = <<StatusMark(d.r.status)>>
    /\ \A i \in 1..Len(d.r.logged) : d.r.logged[i].status = d.r.status

\* C11 for the commands whose log entry could be written at the first attempt;
\* the status and the message of execute_command are right in every case.
C11_WhenLogWritable ==
  \A d \in Done :
    /\ d.r.status = ExpectedStatus(d.in)
    /\ d.in.at # "none" =>
         d.r.ret.error = IF d.in.exc = "socket.timeout" THEN TimedOutMsg ELSE d.in.msg
    /\ ~d.r.logFailed =>
         /\ d.r.stats.success + d.r.stats.errors = d.before.success + d.before.errors + 1
         /\ d.r.stats.success = d.before.success + (IF d.r.status = "Success" THEN 1 ELSE 0)
         /\ d.r.marks = <<StatusMark(d.r.status)>>
         /\ d.r.logged = <<[status |-> d.r.status, output |-> d.r.ret.output,
                            error |-> d.r.ret.error]>>

\* ----------------------------------------- BulkCommands: the session log files

\* Clock ticks in one second, and the ticks the clock can reach.
TicksPerSecond == 2
MaxTicks == 3
\* process_switch calls (over all runs) that write to the Logs directory.
MaxLogSessions == 3
\* Batch runs (processes) that share the Logs directory.
MaxRuns == 2

\* Switch names as typed in switches.csv, character by character.
LogHosts == {<<"a">>, <<"a", "/", "b">>, <<"a", "_", "b">>, <<"a", ":", "b">>}

\* switch.replace("/", "_").replace("\\", "_").replace(":", "_")
Sanitize(name) ==
  [i \in 1..Len(name) |-> IF name[i] \in {"/", "\\", ":"} THEN "_" ELSE name[i]]

\* datetime.now().strftime("%Y%m%d_%H%M%S"): the clock cut to whole seconds.
Timestamp(now) == now \div TicksPerSecond

\* get_log_file_path: Logs/<switch_safe>/<timestamp>.txt
get_log_file_path(switch, now) == [dir |-> Sanitize(switch), file |-> Timestamp(now)]

\* get_logs_dir: an empty Logs directory.
InitLog ==
  /\ PoolIdle
  /\ IdleBut({"logfs"})
  /\ logfs = [now |-> 0, writes |-> <<>>]

\* One iteration of the loop of run_bulk_commands in run r: get_log_file_path
\* for the switch, then process_switch, which opens that file in append mode
\* for the header, the entries and the footer (or the connection error).
LogSession(r, switch) ==
  /\ Len(logfs.writes) < MaxLogSessions
  /\ logfs' = [logfs EXCEPT !.writes =
                 Append(@, [run |-> r, switch |-> switch, at |-> logfs.now,
                            path |-> get_log_file_path(switch, logfs.now)])]
  /\ UNCHANGED <<poolVars, runVars, cmd, fdbc, ver, upd, vcache, sel, cred, moreVars>>

\* Time passes.
LogTick ==
  /\ logfs.now < MaxTicks
  /\ logfs' = [logfs EXCEPT !.now = @ + 1]
  /\ UNCHANGED <<poolVars, runVars, cmd, fdbc, ver, upd, vcache, sel, cred, moreVars>>

NextLog ==
  \/ \E r \in 1..MaxRuns, switch \in LogHosts : LogSession(r, switch)
  \/ LogTick

SpecLog == InitLog /\ [][NextLog]_vars

\* C12 as stated: no two process_switch calls (two hosts, two runs, or two
\* occurrences of one host in one run) write to the same log file.
C12_OneSessionPerLogFile ==
  \A i, j \in 1..Len(logfs.writes) :
    i # j => logfs.writes[i].path # logfs.writes[j].path

\* What the file name does give: two sessions share a file exactly when they
\* start within the same clock second on switches with the same sanitized name.
C12_SharedOnlyWithinOneSecond ==
  \A i, j \in 1..Len(logfs.writes) :
    logfs.writes[i].path = logfs.writes[j].path <=>
      /\ Sanitize(logfs.writes[i].switch) = Sanitize(logfs.writes[j].switch)
      /\ logfs.writes[i].at \div TicksPerSecond = logfs.writes[j].at \div TicksPerSecond

\* ------------------------------------------------- FDBSearching: the FDB cache

\* Seconds between two readings of the clock, and the last reading.
FdbTick == 300
MaxFdbTime == 1200
\* The FDB table of a switch changes at most this many times.
MaxFdbVersion == 1

\* cache_duration = 15 * 60
cache_duration == 15 * 60

NoEntry == [data |-> -1, timestamp |-> -1]
\* What the user types at the refresh prompt.
Answers == {"y", "Y", "n", ""}
NoAnswer == "-"
\* str.lower()
Lower(a) == IF a = "Y" THEN "y" ELSE a

\* The result of one get_fdb_info call: the cache after it, what it returned,
\* whether it prompted, whether it sent "show fdb", whether it raised.
FdbResult(cache, ret, prompted, fetched, raised) ==
  [cache |-> cache, ret |-> ret, prompted |-> prompted, fetched |-> fetched,
   raised |-> raised]

\* A fetch that drops the entry of the host when "show fdb" fails.
FdbFetchMutantDropsOnError(cache, h, now, prompted, fetchOk, data) ==
  IF fetchOk
  THEN FdbResult([cache EXCEPT ![h] = [data |-> data, timestamp |-> now]], data,
                 prompted, TRUE, FALSE)
  ELSE FdbResult([cache EXCEPT ![h] = NoEntry], -1, prompted, TRUE, TRUE)

\* "Fetch fresh FDB data": exec_command("show fdb"), read, cache, return.
FdbFetch(cache, h, now, prompted, fetchOk, data) ==
  IF fetchOk
  THEN FdbResult([cache EXCEPT ![h] = [data |-> data, timestamp |-> now]], data,
                 prompted, TRUE, FALSE)
  ELSE FdbResult(cache, -1, prompted, TRUE, TRUE)

\* get_fdb_info with the stale test written "<=": an entry of exactly 15
\* minutes is still served without a prompt.
get_fdb_infoMutantInclusive(cache, h, now, force, answer, fetchOk, data) ==
  IF cache[h] # NoEntry /\ ~force
  THEN IF now - cache[h].timestamp <= cache_duration
       THEN FdbResult(cache, cache[h].data, FALSE, FALSE, FALSE)
       ELSE IF Lower(answer) # "y"
       THEN FdbResult(cache, cache[h].data, TRUE, FALSE, FALSE)
       ELSE FdbFetch(cache, h, now, TRUE, fetchOk, data)
  ELSE FdbFetch(cache, h, now, FALSE, fetchOk, data)

\* get_fdb_info where force_refresh skips the prompt only: a fresh entry is
\* still served from the cache.
get_fdb_infoMutantForceAfterAge(cache, h, now, force, answer, fetchOk, data) ==
  IF cache[h] # NoEntry
  THEN IF now - cache[h].timestamp < cache_duration
       THEN FdbResult(cache, cache[h].data, FALSE, FALSE, FALSE)
       ELSE IF ~force /\ Lower(answer) # "y"
       THEN FdbResult(cache, cache[h].data, TRUE, FALSE, FALSE)
       ELSE FdbFetch(cache, h, now, ~force, fetchOk, data)
  ELSE FdbFetch(cache, h, now, FALSE, fetchOk, data)

\* get_fdb_info(ssh_client, switch_ip, fdb_cache, force_refresh)
get_fdb_info(cache, h, now, force, answer, fetchOk, data) ==
  IF cache[h] # NoEntry /\ ~force
  THEN IF now - cache[h].timestamp < cache_duration
       THEN FdbResult(cache, cache[h].data, FALSE, FALSE, FALSE)
       ELSE IF Lower(answer) # "y"
       THEN FdbResult(cache, cache[h].data, TRUE, FALSE, FALSE)
       ELSE FdbFetch(cache, h, now, TRUE, fetchOk, data)
  ELSE FdbFetch(cache, h, now, FALSE, fetchOk, data)

NoFdbCall == [host |-> NoHost, force |-> FALSE, at |-> 0, answer |-> NoAnswer,
              pre |-> NoEntry, preCache |-> <<>>, table |-> -1,
              r |-> FdbResult(<<>>, -1, FALSE, FALSE, FALSE)]

InitFdb ==
  /\ PoolIdle
  /\ IdleBut({"fdbc"})
  /\ fdbc = [now |-> 0, cache |-> [h \in Hosts |-> NoEntry], table |-> [h \in Hosts |-> 0],
             fetched |-> [h \in Hosts |-> NoEntry], call |-> NoFdbCall]

\* One call get_fdb_info(ssh, h, fdb_cache, force). The answer is read only
\* at the prompt, the fetch outcome only when "show fdb" is sent.
GetFdbInfo(h, force) ==
  /\ \E answer \in Answers \cup {NoAnswer}, fetchOk \in BOOLEAN :
       /\ (answer # NoAnswer) <=>
            /\ fdbc.cache[h] # NoEntry /\ ~force
            /\ fdbc.now - fdbc.cache[h].timestamp >= cache_duration
       /\ LET r == get_fdb_info(fdbc.cache, h, fdbc.now, force, answer, fetchOk,
                                fdbc.table[h])
          IN /\ ~r.fetched => fetchOk
             /\ fdbc' = [fdbc EXCEPT
                    !.cache = r.cache,
                    !.fetched[h] = IF r.fetched /\ ~r.raised
                                   THEN [data |-> r.ret, timestamp |-> fdbc.now] ELSE @,
                    !.call = [host |-> h, force |-> force, at |-> fdbc.now,
                              answer |-> answer, pre |-> fdbc.cache[h],
                              preCache |-> fdbc.cache, table |-> fdbc.table[h],
                              r |-> r]]
  /\ UNCHANGED <<poolVars, runVars, cmd, logfs, ver, upd, vcache, sel, cred, moreVars>>

\* Time passes.
FdbClock ==
  /\ fdbc.now < MaxFdbTime
  /\ fdbc' = [fdbc EXCEPT !.now = @ + FdbTick]
  /\ UNCHANGED <<poolVars, runVars, cmd, logfs, ver, upd, vcache, sel, cred, moreVars>>

\* The switch learns or ages out addresses: "show fdb" gives something new.
FdbTableChanges(h) ==
  /\ fdbc.table[h] < MaxFdbVersion
  /\ fdbc' = [fdbc EXCEPT !.table[h] = @ + 1]
  /\ UNCHANGED <<poolVars, runVars, cmd, logfs, ver, upd, vcache, sel, cred, moreVars>>

NextFdb ==
  \/ \E h \in Hosts, force \in BOOLEAN : GetFdbInfo(h, force)
  \/ FdbClock
  \/ \E h \in Hosts : FdbTableChanges(h)

SpecFdb == InitFdb /\ [][NextFdb]_vars

\* C13: a call without force_refresh on an entry younger than 15 minutes
\* returns the cached data, sends no "show fdb" and does not prompt; on an
\* entry of 15 minutes or more it prompts, and an answer other than y returns
\* the stale data without a fetch. The cache always holds what the last
\* successful fetch returned, with the time of that call, so every lookup within
\* 15 minutes of a fetch returns the data of that fetch.
C13_FreshEntryServedStaleOffered ==
  LET c == fdbc.call
      age == c.at - c.pre.timestamp
  IN /\ \A h \in Hosts : fdbc.cache[h] = fdbc.fetched[h]
     /\ (c.host # NoHost /\ ~c.force /\ c.pre # NoEntry) =>
          /\ age < cache_duration =>
               /\ c.r.ret = c.pre.data /\ ~c.r.fetched /\ ~c.r.prompted /\ ~c.r.raised
               /\ fdbc.cache[c.host] = c.pre
          /\ age >= cache_duration =>
               /\ c.r.prompted
               /\ Lower(c.answer) # "y" =>
                    /\ c.r.ret = c.pre.data /\ ~c.r.fetched /\ ~c.r.raised
                    /\ fdbc.cache[c.host] = c.pre
               /\ Lower(c.answer) = "y" => c.r.fetched

\* An entry of exactly 15 minutes was offered for refresh, the user declined,
\* the stale data came back although the switch's table had changed.
C13_Witness ==
  LET c == fdbc.call
  IN /\ c.host # NoHost /\ ~c.force /\ c.pre # NoEntry
     /\ c.at - c.pre.timestamp = cache_duration
     /\ c.r.prompted /\ ~c.r.fetched /\ c.r.ret = c.pre.data
     /\ fdbc.table[c.host] # c.pre.data

\* C14: a call with force_refresh always sends "show fdb", whatever the age of
\* the entry, and never prompts; when the fetch succeeds the host's entry is the
\* fetched data with the time of the call, and the other entries are untouched.
C14_ForceRefreshAlwaysFetches ==
  LET c == fdbc.call
  IN (c.host # NoHost /\ c.force) =>
       /\ c.r.fetched /\ ~c.r.prompted
       /\ ~c.r.raised =>
            /\ fdbc.cache[c.host] = [data |-> c.r.ret, timestamp |-> c.at]
            /\ c.r.ret = c.table
       /\ c.r.raised => fdbc.cache[c.host] = c.pre
       /\ \A o \in Hosts \ {c.host} : fdbc.cache[o] = c.preCache[o]

\* A forced call on an entry younger than 15 minutes replaced it with new data.
C14_Witness ==
  LET c == fdbc.call
  IN /\ c.host # NoHost /\ c.force /\ c.pre # NoEntry
     /\ c.at - c.pre.timestamp < cache_duration /\ c.at > c.pre.timestamp
     /\ ~c.r.raised /\ c.r.ret # c.pre.data
     /\ fdbc.cache[c.host] = [data |-> c.r.ret, timestamp |-> c.at]

\* ------------------------------------------------ update.py: is_newer_version

\* Longest version string drawn from VerChars.
MaxVerLen == 3

\* Version strings are sequences of characters.
VerChars == {"0", "1", ".", "a"}
Digits == <<"0", "1", "2", "3", "4", "5", "6", "7", "8", "9">>

\* str.split('.'): the parts between the dots, empty parts kept.
RECURSIVE SplitDots(_)
SplitDots(str) ==
  IF \A i \in 1..Len(str) : str[i] # "."
  THEN <<str>>
  ELSE LET k == CHOOSE i \in 1..Len(str) :
                  str[i] = "." /\ \A j \in 1..(i - 1) : str[j] # "."
       IN <<SubSeq(str, 1, k - 1)>> \o SplitDots(SubSeq(str, k + 1, Len(str)))

\* The value of a run of decimal digits.
RECURSIVE DecimalVal(_)
DecimalVal(ds) ==
  IF ds = <<>> THEN 0
  ELSE 10 * DecimalVal(SubSeq(ds, 1, Len(ds) - 1))
       + (CHOOSE d \in 1..10 : Digits[d] = ds[Len(ds)]) - 1

\* int(x) for a part: an optional sign and at least one digit, leading zeros
\* allowed; anything else raises ValueError.
ParseInt(part) ==
  LET signed == part # <<>> /\ part[1] \in {"-", "+"}
      ds == IF signed THEN Tail(part) ELSE part
      ok == ds # <<>> /\ \A i \in 1..Len(ds) : \E d \in 1..10 : Digits[d] = ds[i]
  IN [ok |-> ok,
      val |-> IF ~ok THEN 0
              ELSE IF signed /\ part[1] = "-" THEN 0 - DecimalVal(ds) ELSE DecimalVal(ds)]

\* [int(x) for x in s.split('.')]
ParseParts(str) ==
  LET parts == SplitDots(str)
      ints == [i \in 1..Len(parts) |-> ParseInt(parts[i])]
  IN [ok |-> \A i \in 1..Len(parts) : ints[i].ok,
      vals |-> [i \in 1..Len(parts) |-> ints[i].val]]

\* parts += [0] * (max_len - len(parts))
PadZeros(vals, n) == vals \o [i \in 1..(n - Len(vals)) |-> 0]

\* Python's a > b on two lists of integers.
RECURSIVE ListGreater(_, _)
ListGreater(a, b) ==
  IF a = <<>> THEN FALSE
  ELSE IF b = <<>> THEN TRUE
  ELSE IF Head(a) # Head(b) THEN Head(a) > Head(b)
  ELSE ListGreater(Tail(a), Tail(b))

\* is_newer_version with the padding left out: the longer list wins a tie.
is_newer_versionMutantNoPadding(current, latest) ==
  LET c == ParseParts(current)
      l == ParseParts(latest)
  IN IF ~c.ok \/ ~l.ok THEN FALSE
     ELSE ListGreater(l.vals, c.vals)

\* is_newer_version(current, latest)
is_newer_version(current, latest) ==
  LET c == ParseParts(current)
      l == ParseParts(latest)
      max_len == IF Len(c.vals) > Len(l.vals) THEN Len(c.vals) ELSE Len(l.vals)
  IN IF ~c.ok \/ ~l.ok THEN FALSE
     ELSE ListGreater(PadZeros(l.vals, max_len), PadZeros(c.vals, max_len))

\* Every string of VerChars up to the bound.
VerStrings == UNION {[1..n -> VerChars] : n \in 0..MaxVerLen}

\* The version pairs that the spec gives as examples, and two signed ones.
V_1_2_3 == <<"1", ".", "2", ".", "3">>
V_1_2_10 == <<"1", ".", "2", ".", "1", "0">>
V_1_10_0 == <<"1", ".", "1", "0", ".", "0">>
V_1_9_9 == <<"1", ".", "9", ".", "9">>
V_1_2 == <<"1", ".", "2">>
V_1_2_0 == <<"1", ".", "2", ".", "0">>
V_abc == <<"a", "b", "c">>
V_1_0_0 == <<"1", ".", "0", ".", "0">>
V_1_m1 == <<"1", ".", "-", "1">>
VerExamples ==
  {<<V_1_2_3, V_1_2_10>>, <<V_1_10_0, V_1_9_9>>, <<V_1_2, V_1_2_0>>, <<V_abc, V_1_0_0>>,
   <<V_1_m1, V_1_2>>, <<V_1_2, V_1_m1>>}

VerPairs == (VerStrings \X VerStrings) \cup VerExamples

InitVer ==
  /\ PoolIdle
  /\ IdleBut({"ver"})
  /\ \E pair \in VerPairs :
       ver = [current |-> pair[1], latest |-> pair[2], called |-> FALSE, result |-> FALSE]

\* compare_versions calls is_newer_version(local_version, remote_version).
CallIsNewer ==
  /\ ~ver.called
  /\ ver' = [ver EXCEPT !.called = TRUE,
                        !.result = is_newer_version(ver.current, ver.latest)]
  /\ UNCHANGED <<poolVars, runVars, cmd, logfs, fdbc, upd, vcache, sel, cred, moreVars>>

SpecVer == InitVer /\ [][CallIsNewer]_vars

\* The claim's reading of a version string: it parses when every part between
\* the dots is an integer; its tuple, padded on the right with zeros to length n.
VerParses(str) == ParseParts(str).ok
VerTuple(str, n) ==
  LET v == ParseParts(str).vals IN [i \in 1..n |-> IF i <= Len(v) THEN v[i] ELSE 0]
\* Lexicographic order on two tuples of one length.
LexGreater(a, b) ==
  \E k \in 1..Len(a) : a[k] > b[k] /\ \A j \in 1..(k - 1) : a[j] = b[j]

\* C15: is_newer_version(current, latest) is true exactly when both strings
\* parse and the zero-padded tuple of latest is lexicographically greater than
\* that of current; it is false when either fails to parse. ("1.2.3","1.2.10")
\* gives true; ("1.10.0","1.9.9"), ("1.2","1.2.0") and ("abc","1.0.0") give false.
C15_NewerIffPaddedTupleGreater ==
  ver.called =>
    LET pc1 == SplitDots(ver.current)
        pl1 == SplitDots(ver.latest)
        n == IF Len(pc1) > Len(pl1) THEN Len(pc1) ELSE Len(pl1)
    IN /\ ver.result <=>
            /\ VerParses(ver.current) /\ VerParses(ver.latest)
            /\ LexGreater(VerTuple(ver.latest, n), VerTuple(ver.current, n))
       /\ (ver.current = V_1_2_3 /\ ver.latest = V_1_2_10) => ver.result
       /\ (ver.current = V_1_10_0 /\ ver.latest = V_1_9_9) => ~ver.result
       /\ (ver.current = V_1_2 /\ ver.latest = V_1_2_0) => ~ver.result
       /\ (ver.current = V_abc /\ ver.latest = V_1_0_0) => ~ver.result

\* A call on lists of different lengths where the padding decides: the shorter
\* one is the newer version.
C15_Witness ==
  /\ ver.called /\ ver.result
  /\ Len(SplitDots(ver.latest)) < Len(SplitDots(ver.current))

\* --------------------------------------------------- update.py: an update run

\* Tool folders named in the remote versions.json.
Tools == {"BulkCommands", "FDBSearching"}
\* Version strings of the manifests.
V_0_0_0 == <<"0", ".", "0", ".", "0">>
ManifestVersions == {<<"1", ".", "0">>, <<"1", ".", "1">>}
\* A tool that the local versions.json does not list.
Absent == <<>>

\* A tool folder on disk: missing, holding the files of one release, or
\* holding part of them.
NoFolder == [st |-> "missing", v |-> Absent]
Folder(v) == [st |-> "present", v |-> v]
PartialFolder == [st |-> "partial", v |-> Absent]

\* compare_versions taking a tool that the local manifest lacks as up to date.
compare_versionsMutantSkipsNewTools(local, remote) ==
  LET reported == {t \in Tools : /\ remote[t] # Absent /\ local[t] # Absent
                                 /\ is_newer_version(local[t], remote[t])}
  IN [t \in reported |-> [current |-> local[t], latest |-> remote[t]]]

\* compare_versions: for tool_name, remote_version in remote_tools.items(),
\* local_version = local_tools.get(tool_name, "0.0.0"); the tools for which
\* is_newer_version(local_version, remote_version), each with its
\* {"current": local_version, "latest": remote_version}.
compare_versions(local, remote) ==
  LET local_version(t) == IF local[t] = Absent THEN V_0_0_0 ELSE local[t]
      reported == {t \in Tools : /\ remote[t] # Absent
                                 /\ is_newer_version(local_version(t), remote[t])}
  IN [t \in reported |-> [current |-> local_version(t), latest |-> remote[t]]]

\* What rmtree and copytree do to one tool folder.
CopyOutcomes == {"ok", "rm_fails_untouched", "rm_fails_partial", "cp_fails_missing",
                 "cp_fails_partial"}

\* copy_tool_folder: rmtree of an existing destination, then copytree; any
\* exception is printed and False returned.
copy_tool_folder(dest, v, outcome) ==
  IF outcome = "ok" THEN [folder |-> Folder(v), ok |-> TRUE]
  ELSE IF outcome = "rm_fails_untouched" THEN [folder |-> dest, ok |-> FALSE]
  ELSE IF outcome = "cp_fails_missing" THEN [folder |-> NoFolder, ok |-> FALSE]
  ELSE [folder |-> PartialFolder, ok |-> FALSE]

\* update_tools: every selected tool whose source folder exists is copied;
\* when at least one copy succeeded, versions.json is loaded, the remote version
\* is set for every selected tool, and the file is saved (a failing save is
\* printed, a failing load gives an empty manifest).
update_tools(folder, manifest, selected, remote, src, outcome, loadOk, saveOk) ==
  LET tried == {t \in selected : src[t]}
      c == [t \in Tools |-> copy_tool_folder(folder[t], remote[t], outcome[t])]
      copied == {t \in tried : c[t].ok}
      loaded == IF loadOk THEN manifest ELSE [t \in Tools |-> Absent]
  IN [folder |-> [t \in Tools |-> IF t \in tried THEN c[t].folder ELSE folder[t]],
      manifest |-> IF copied # {} /\ saveOk
                   THEN [t \in Tools |-> IF t \in selected THEN remote[t] ELSE loaded[t]]
                   ELSE manifest,
      copied |-> copied,
      ret |-> copied # {}]

\* What one run of main(check_only=False) meets.
UpdateInputs ==
  [dlOk : BOOLEAN, exOk : BOOLEAN, selected : SUBSET Tools,
   outcome : [Tools -> CopyOutcomes], loadOk : BOOLEAN, saveOk : BOOLEAN]

NoUpdateRun ==
  [stage |-> "none", selected |-> {}, copied |-> {}, outcome |-> <<>>, ret |-> FALSE,
   saveOk |-> TRUE, preFolder |-> <<>>, preManifest |-> <<>>]

\* main(check_only=False): download_repo_zip, extract_zip, the remote
\* manifest, compare_versions, the user's selection, update_tools.
update_main(u, in) ==
  LET run == [NoUpdateRun EXCEPT !.preFolder = u.folder, !.preManifest = u.manifest]
  IN IF ~in.dlOk THEN [u EXCEPT !.run = [run EXCEPT !.stage = "download failed"]]
     ELSE IF ~in.exOk THEN [u EXCEPT !.run = [run EXCEPT !.stage = "extract failed"]]
     ELSE IF in.selected = {} THEN [u EXCEPT !.run = [run EXCEPT !.stage = "nothing selected"]]
     ELSE LET r == update_tools(u.folder, u.manifest, in.selected, u.remote, u.src,
                                in.outcome, in.loadOk, in.saveOk)
          IN [u EXCEPT !.folder = r.folder, !.manifest = r.manifest,
                       !.run = [run EXCEPT !.stage = "installed", !.selected = in.selected,
                                           !.copied = r.copied, !.outcome = in.outcome,
                                           !.saveOk = in.saveOk, !.ret = r.ret]]

\* Inputs that differ only in parts the run never reads are one input; the
\* selection is what display_update_options can return; rmtree runs (and can
\* fail) only when the destination exists.
UpdateCanGive(u, in) ==
  LET avail == DOMAIN compare_versions(u.manifest, u.remote)
      reads == in.dlOk /\ in.exOk
      tried == {t \in in.selected : u.src[t]}
      copies == \E t \in tried : in.outcome[t] = "ok"
  IN /\ ~in.dlOk => in.exOk
     /\ in.selected \subseteq avail
     /\ ~reads => in.selected = {}
     /\ \A t \in Tools :
          IF t \in tried
          THEN u.folder[t].st = "missing" =>
                 in.outcome[t] \in {"ok", "cp_fails_missing", "cp_fails_partial"}
          ELSE in.outcome[t] = "ok"
     /\ ~copies => in.loadOk /\ in.saveOk
     /\ ~in.saveOk => in.loadOk

\* An install: each tool is either not installed (not in versions.json, no
\* folder) or installed at the version versions.json gives.
InitUpd ==
  /\ PoolIdle
  /\ IdleBut({"upd"})
  /\ \E manifest \in [Tools -> ManifestVersions \cup {Absent}],
        remote \in [Tools -> ManifestVersions], src \in [Tools -> BOOLEAN] :
       upd = [folder |-> [t \in Tools |-> IF manifest[t] = Absent THEN NoFolder
                                          ELSE Folder(manifest[t])],
              manifest |-> manifest, remote |-> remote, src |-> src,
              run |-> NoUpdateRun]

\* One run of update.py without --check-only.
UpdateRun ==
  /\ upd.run.stage = "none"
  /\ \E in \in UpdateInputs :
       /\ UpdateCanGive(upd, in)
       /\ upd' = update_main(upd, in)
  /\ UNCHANGED <<poolVars, runVars, cmd, logfs, fdbc, ver, vcache, sel, cred, moreVars>>

SpecUpd == InitUpd /\ [][UpdateRun]_vars

\* The run met a failure: the download, the extraction, or the copy of a
\* selected tool whose source folder exists.
UpdateFailed ==
  \/ upd.run.stage \in {"download failed", "extract failed"}
  \/ /\ upd.run.stage = "installed"
     /\ \E t \in upd.run.selected : upd.src[t] /\ upd.run.outcome[t] # "ok"

LocalStateUntouched ==
  /\ upd.folder = upd.run.preFolder
  /\ upd.manifest = upd.run.preManifest

\* C16 as stated: after a failed update (download, extraction or copy error)
\* every tool folder and versions.json are as they were before the run.
C16_FailedUpdateLeavesLocalState ==
  UpdateFailed => LocalStateUntouched

\* C16 for the failures before the install step: a failed download or a failed
\* extraction ends the run with the local state untouched.
C16_DownloadOrExtractFailure ==
  upd.run.stage \in {"download failed", "extract failed", "nothing selected"} =>
    LocalStateUntouched /\ ~upd.run.ret

\* C17 as stated: after a run, versions.json gives the remote version of a
\* selected tool exactly when the tool's folder was replaced from the archive;
\* a selected tool that was not replaced keeps the version recorded before.
C17_ManifestMatchesReplacedFolders ==
  upd.run.stage = "installed" =>
    \A t \in upd.run.selected :
      /\ upd.manifest[t] = upd.remote[t] <=> t \in upd.run.copied
      /\ t \notin upd.run.copied => upd.manifest[t] = upd.run.preManifest[t]

\* What update_tools does record: when at least one copy succeeded and the
\* save worked, the remote version of every selected tool, replaced or not;
\* otherwise nothing.
C17_ManifestRecordsEverySelected ==
  upd.run.stage = "installed" =>
    IF upd.run.copied # {} /\ upd.run.saveOk
    THEN \A t \in upd.run.selected : upd.manifest[t] = upd.remote[t]
    ELSE upd.manifest = upd.run.preManifest

\* The state that breaks C17: a selected tool whose copy failed (its folder
\* gone or half copied) is recorded at the remote version, because another
\* selected tool was copied.
C17_FailedCopyRecorded ==
  /\ upd.run.stage = "installed" /\ upd.run.saveOk
  /\ \E t \in upd.run.selected :
       /\ t \notin upd.run.copied
       /\ upd.folder[t] # Folder(upd.remote[t])
       /\ upd.manifest[t] = upd.remote[t]
       /\ upd.manifest[t] # upd.run.preManifest[t]

\* ------------------------------------- update.py: the check-only versions cache

\* Seconds between two readings of the clock, and the last reading.
VcTick == 43200
MaxVcTime == 129600
\* The remote versions.json changes at most this many times.
MaxRemoteRevision == 2

\* "less than 24 hours old": hours_old = (current_time - timestamp) / 3600 < 24
CacheFreshSeconds == 24 * 3600

\* .versions_cache.json: not there, not loadable (truncated by a failed
\* write), or {timestamp, versions}.
NoCacheFile == [st |-> "absent", timestamp |-> 0, versions |-> 0]
BadCacheFile == [st |-> "unreadable", timestamp |-> 0, versions |-> 0]
CacheFile(ts, m) == [st |-> "ok", timestamp |-> ts, versions |-> m]
\* None
NoManifest == 0

\* load_versions_cache with the test written "<=": a cache of exactly 24 hours
\* still counts as fresh.
load_versions_cacheMutantInclusive(file, now) ==
  IF file.st # "ok" THEN NoManifest
  ELSE IF now - file.timestamp <= CacheFreshSeconds THEN file.versions
  ELSE NoManifest

\* load_versions_cache: the cached manifest when the file loads and is less
\* than 24 hours old, None otherwise.
load_versions_cache(file, now) ==
  IF file.st # "ok" THEN NoManifest
  ELSE IF now - file.timestamp < CacheFreshSeconds THEN file.versions
  ELSE NoManifest

\* What the write of the cache file does.
SaveOutcomes == {"ok", "fails_untouched", "fails_truncated"}

\* save_versions_cache: {timestamp: time.time(), versions} written to the file;
\* any exception is swallowed.
save_versions_cache(file, m, now, outcome) ==
  IF outcome = "ok" THEN CacheFile(now, m)
  ELSE IF outcome = "fails_untouched" THEN file
  ELSE BadCacheFile

\* main(check_only=True) up to the manifest it goes on with: the cache, else
\* download_versions_json and, when that gave a manifest, save_versions_cache.
check_only(file, now, remote, dlOk, outcome) ==
  LET cached == load_versions_cache(file, now)
  IN IF cached # NoManifest
     THEN [file |-> file, downloaded |-> FALSE, saved |-> FALSE, used |-> cached]
     ELSE IF dlOk
     THEN [file |-> save_versions_cache(file, remote, now, outcome), downloaded |-> TRUE,
           saved |-> TRUE, used |-> remote]
     ELSE [file |-> file, downloaded |-> TRUE, saved |-> FALSE, used |-> NoManifest]

NoCheck == [at |-> -1, pre |-> NoCacheFile, remote |-> NoManifest, dlOk |-> TRUE,
            outcome |-> "ok", r |-> [file |-> NoCacheFile, downloaded |-> FALSE,
                                     saved |-> FALSE, used |-> NoManifest]]

InitVc ==
  /\ PoolIdle
  /\ IdleBut({"vcache"})
  /\ vcache = [now |-> 0, file |-> NoCacheFile, remote |-> 1, check |-> NoCheck]

\* One run of update.py --check-only (check_for_updates at a tool's start).
CheckOnly ==
  /\ \E dlOk \in BOOLEAN, outcome \in SaveOutcomes :
       LET r == check_only(vcache.file, vcache.now, vcache.remote, dlOk, outcome)
       IN /\ ~r.downloaded => dlOk
          /\ ~r.saved => outcome = "ok"
          /\ vcache' = [vcache EXCEPT
                 !.file = r.file,
                 !.check = [at |-> vcache.now, pre |-> vcache.file,
                            remote |-> vcache.remote, dlOk |-> dlOk, outcome |-> outcome,
                            r |-> r]]
  /\ UNCHANGED <<poolVars, runVars, cmd, logfs, fdbc, ver, upd, sel, cred, moreVars>>

\* A full update run got as far as the extracted archive: main() saves its
\* versions.json to the cache ("Update cache with fresh versions").
UpdateSavesCache ==
  /\ \E outcome \in SaveOutcomes :
       vcache' = [vcache EXCEPT
         !.file = save_versions_cache(vcache.file, vcache.remote, vcache.now, outcome)]
  /\ UNCHANGED <<poolVars, runVars, cmd, logfs, fdbc, ver, upd, sel, cred, moreVars>>

\* Time passes.
VcClock ==
  /\ vcache.now < MaxVcTime
  /\ vcache' = [vcache EXCEPT !.now = @ + VcTick]
  /\ UNCHANGED <<poolVars, runVars, cmd, logfs, fdbc, ver, upd, sel, cred, moreVars>>

\* A new versions.json is pushed to the repository.
RemoteChanges ==
  /\ vcache.remote <= MaxRemoteRevision
  /\ vcache' = [vcache EXCEPT !.remote = @ + 1]
  /\ UNCHANGED <<poolVars, runVars, cmd, logfs, fdbc, ver, upd, sel, cred, moreVars>>

NextVc ==
  \/ CheckOnly
  \/ UpdateSavesCache
  \/ VcClock
  \/ RemoteChanges

SpecVc == InitVc /\ [][NextVc]_vars

\* The check-only run just made, and whether it found the cache fresh.
Checked == vcache.check.at >= 0
CacheWasFresh ==
  /\ vcache.check.pre.st = "ok"
  /\ vcache.check.at - vcache.check.pre.timestamp < CacheFreshSeconds

\* The part of C18 about when the network is used: a check-only run downloads
\* exactly when the cache file is absent, unreadable or at least 24 hours old;
\* with a younger cache it uses the cached manifest and leaves the file alone.
DownloadsOnlyWhenStale ==
  Checked =>
    /\ vcache.check.r.downloaded <=> ~CacheWasFresh
    /\ CacheWasFresh =>
         /\ vcache.check.r.used = vcache.check.pre.versions
         /\ vcache.check.r.file = vcache.check.pre

\* C18 as stated: the download rule above, and after a successful download the
\* cache file holds the fetched manifest and the time of the run.
C18_CacheRewrittenAfterDownload ==
  /\ DownloadsOnlyWhenStale
  /\ (Checked /\ vcache.check.r.downloaded /\ vcache.check.dlOk) =>
       vcache.check.r.file = CacheFile(vcache.check.at, vcache.check.remote)

\* C18 amended: the download rule above; after a successful download the run
\* goes on with the fetched manifest and writes it to the cache with the
\* current time, but a failing write is swallowed: the file is then left as
\* the failed write left it (untouched or unreadable). After a failed download
\* the file is not touched.
C18_CacheWriteIsBestEffort ==
  /\ DownloadsOnlyWhenStale
  /\ (Checked /\ vcache.check.r.downloaded) =>
       IF vcache.check.dlOk
       THEN /\ vcache.check.r.used = vcache.check.remote
            /\ vcache.check.outcome = "ok" =>
                 vcache.check.r.file = CacheFile(vcache.check.at, vcache.check.remote)
            /\ vcache.check.outcome # "ok" =>
                 vcache.check.r.file \in {vcache.check.pre, BadCacheFile}
       ELSE /\ vcache.check.r.used = NoManifest
            /\ vcache.check.r.file = vcache.check.pre

\* A cache of exactly 24 hours, holding an older manifest, was found stale and
\* the new manifest downloaded, but the write of the cache failed.
C18_Witness ==
  /\ Checked /\ vcache.check.pre.st = "ok"
  /\ vcache.check.at - vcache.check.pre.timestamp = CacheFreshSeconds
  /\ vcache.check.r.downloaded /\ vcache.check.dlOk
  /\ vcache.check.r.used # vcache.check.pre.versions
  /\ vcache.check.outcome # "ok"

\* ------------------------------------------ update.py: display_update_options

\* Tools in the remote manifest, comma separated parts in one answer, and
\* answers typed at the prompt of one call.
MaxTools == 3
MaxPicks == 2
MaxPrompts == 2

\* The i-th tool of sorted(remote_versions["tools"].keys()).
ToolName(i) == <<"tool", i>>

\* What the user types: a word, or parts separated by commas.
SelInputs ==
  {[word |-> w, parts |-> <<>>] : w \in {"none", "NONE", "all", "All", "later"}} \cup
  {[word |-> "", parts |-> ps] :
     ps \in UNION {[1..n -> {<<"0">>, <<"1">>, <<"2">>, <<"3">>, <<"4">>, <<"x">>}] :
                     n \in 1..MaxPicks}}

\* str.lower() on the words above.
LowerWord(w) ==
  IF w = "NONE" THEN "none" ELSE IF w = "All" THEN "all" ELSE w

\* PickTools without the test 0 <= idx: tool_list[-1] is the last tool.
RECURSIVE PickToolsMutantNegativeIndex(_, _, _)
PickToolsMutantNegativeIndex(idxs, tool_list, updates) ==
  IF idxs = <<>> THEN <<>>
  ELSE LET idx == Head(idxs)
           at == IF idx < 0 THEN Len(tool_list) + idx + 1 ELSE idx + 1
           rest == PickToolsMutantNegativeIndex(Tail(idxs), tool_list, updates)
       IN IF idx < Len(tool_list) /\ at >= 1 /\ tool_list[at] \in updates
          THEN <<tool_list[at]>> \o rest
          ELSE rest

\* The tools picked by the indexes, in the order typed: idx = int(x) - 1, kept
\* when 0 <= idx < len(tool_list) and the tool has an update.
RECURSIVE PickTools(_, _, _)
PickTools(idxs, tool_list, updates) ==
  IF idxs = <<>> THEN <<>>
  ELSE LET idx == Head(idxs)
           rest == PickTools(Tail(idxs), tool_list, updates)
       IN IF 0 <= idx /\ idx < Len(tool_list) /\ tool_list[idx + 1] \in updates
          THEN <<tool_list[idx + 1]>> \o rest
          ELSE rest

\* One iteration of the loop of display_update_options: "none", "all", or
\* the indexes; an answer that does not parse, or picks nothing, prompts again.
AnswerPrompt(all_tools, updates, input) ==
  LET word == LowerWord(input.word)
      ints == [i \in 1..Len(input.parts) |-> ParseInt(input.parts[i])]
  IN IF word = "none" THEN [returned |-> TRUE, ret |-> <<>>]
     ELSE IF word = "all"
     THEN [returned |-> TRUE, ret |-> SelectSeq(all_tools, LAMBDA t : t \in updates)]
     ELSE IF word # "" \/ \E i \in 1..Len(ints) : ~ints[i].ok
     THEN [returned |-> FALSE, ret |-> <<>>]
     ELSE LET selected_tools ==
                PickTools([i \in 1..Len(ints) |-> ints[i].val - 1], all_tools, updates)
          IN [returned |-> selected_tools # <<>>, ret |-> selected_tools]

\* A call display_update_options(updates_available, all_tools): the tools of
\* the remote manifest and those of them with a newer version.
InitSel ==
  /\ PoolIdle
  /\ IdleBut({"sel"})
  /\ \E n \in 0..MaxTools :
       \E updates \in SUBSET {ToolName(i) : i \in 1..n} :
         sel = [all_tools |-> [i \in 1..n |-> ToolName(i)], updates |-> updates,
                stage |-> "called", prompts |-> 0,
                input |-> [word |-> "", parts |-> <<>>], ret |-> <<>>]

\* The status list is printed; with no tool or no update the call returns [].
ShowOptions ==
  /\ sel.stage = "called"
  /\ sel' = [sel EXCEPT !.stage = IF sel.updates = {} THEN "returned" ELSE "prompt"]
  /\ UNCHANGED <<poolVars, runVars, cmd, logfs, fdbc, ver, upd, vcache, cred, moreVars>>

\* The user answers the prompt.
AnswerSelection ==
  /\ sel.stage = "prompt"
  /\ sel.prompts < MaxPrompts
  /\ \E input \in SelInputs :
       LET r == AnswerPrompt(sel.all_tools, sel.updates, input)
       IN sel' = [sel EXCEPT !.stage = IF r.returned THEN "returned" ELSE "prompt",
                             !.prompts = @ + 1, !.input = input,
                             !.ret = IF r.returned THEN r.ret ELSE <<>>]
  /\ UNCHANGED <<poolVars, runVars, cmd, logfs, fdbc, ver, upd, vcache, cred, moreVars>>

NextSel ==
  \/ ShowOptions
  \/ AnswerSelection

SpecSel == InitSel /\ [][NextSel]_vars

\* The elements of a sequence.
Range(seq) == {seq[i] : i \in 1..Len(seq)}

\* The indexes typed in the last answer, when every part is a number.
TypedIndexes ==
  IF sel.input.word # "" \/ \E i \in 1..Len(sel.input.parts) : ~ParseInt(sel.input.parts[i]).ok
  THEN {}
  ELSE {ParseInt(sel.input.parts[i]).val : i \in 1..Len(sel.input.parts)}

\* The tools with an update that the last answer names by index.
IndexedUpdates ==
  {sel.all_tools[k] : k \in {j \in TypedIndexes : 1 <= j /\ j <= Len(sel.all_tools)}}
    \cap sel.updates

\* C19: display_update_options returns only tools with an update: "none"
\* gives the empty selection, "all" every tool with an update, a list of indexes
\* the indexed tools that have an update; out-of-range indexes and up-to-date
\* tools are never returned, and an answer that picks no tool with an update
\* prompts again instead of returning.
C19_ReturnsOnlyUpdatableTools ==
  /\ Range(sel.ret) \subseteq sel.updates
  /\ (sel.stage = "returned" /\ sel.prompts > 0) =>
       IF LowerWord(sel.input.word) = "none" THEN sel.ret = <<>>
       ELSE IF LowerWord(sel.input.word) = "all"
       THEN /\ Range(sel.ret) = sel.updates
            /\ Len(sel.ret) = Cardinality(sel.updates)
       ELSE /\ Range(sel.ret) = IndexedUpdates
            /\ sel.ret # <<>>
  /\ (sel.stage = "prompt" /\ sel.prompts > 0) =>
       /\ LowerWord(sel.input.word) \notin {"none", "all"}
       /\ IndexedUpdates = {}
  /\ (sel.stage = "returned" /\ sel.prompts = 0) => sel.ret = <<>> /\ sel.updates = {}

\* An answer naming index 0, an index beyond the list or an up-to-date tool
\* next to a tool with an update: only that tool was returned.
C19_Witness ==
  /\ sel.stage = "returned" /\ sel.prompts > 0
  /\ Len(sel.input.parts) = 2
  /\ Len(sel.ret) = 1
  /\ \E j \in TypedIndexes :
       j < 1 \/ j > Len(sel.all_tools) \/ sel.all_tools[j] \notin sel.updates

\* ------------------------------------------- credentials.txt and the startup

\* Lines of a credentials.txt that a user wrote.
MaxCredLines == 3

\* The template of create_credentials_template.
CredTemplate == <<"username", "password">>

\* credentials.txt: absent, or its lines, each already stripped ("" is a
\* blank line).
NoCredFile == [exists |-> FALSE, lines |-> <<>>]
CredFile(lines) == [exists |-> TRUE, lines |-> lines]
CredFiles ==
  {NoCredFile, CredFile(CredTemplate)} \cup
  {CredFile(ls) : ls \in UNION {[1..n -> {"", "admin", "secret"}] : n \in 0..MaxCredLines}}

\* file.read().strip().splitlines(): blank lines at both ends are dropped.
RECURSIVE StripLines(_)
StripLines(lines) ==
  IF lines = <<>> THEN <<>>
  ELSE IF Head(lines) = "" THEN StripLines(Tail(lines))
  ELSE IF lines[Len(lines)] = "" THEN StripLines(SubSeq(lines, 1, Len(lines) - 1))
  ELSE lines

\* create_credentials_template: nothing when the file exists; else the template
\* is written, and a failing write is printed and leaves no file.
create_credentials_template(file, writeOk) ==
  IF file.exists THEN file
  ELSE IF writeOk THEN CredFile(CredTemplate)
  ELSE file

CredResult(file, raised, username, password) ==
  [file |-> file, raised |-> raised, username |-> username, password |-> password]

\* load_credentials that also lays the template over a file it cannot use.
load_credentialsMutantTemplateOnInvalid(file, writeOk) ==
  IF ~file.exists
  THEN CredResult(create_credentials_template(file, writeOk), "FileNotFoundError", "", "")
  ELSE LET lines == StripLines(file.lines)
       IN IF Len(lines) < 2 \/ lines[1] = "" \/ lines[2] = ""
          THEN CredResult(IF writeOk THEN CredFile(CredTemplate) ELSE file,
                          "ValueError", "", "")
          ELSE CredResult(file, "none", lines[1], lines[2])

\* load_credentials(create_if_missing=True)
load_credentials(file, writeOk) ==
  IF ~file.exists
  THEN CredResult(create_credentials_template(file, writeOk), "FileNotFoundError", "", "")
  ELSE LET lines == StripLines(file.lines)
       IN IF Len(lines) < 2 THEN CredResult(file, "ValueError", "", "")
          ELSE IF lines[1] = "" \/ lines[2] = "" THEN CredResult(file, "ValueError", "", "")
          ELSE CredResult(file, "none", lines[1], lines[2])

\* main() of main.py up to the menu: ensure_credentials exits 1 on
\* FileNotFoundError and on ValueError; else MainMenu creates the
\* ConnectionManager with an empty pool. The standalone BulkCommands main()
\* does the same with its LocalConnectionManager.
Startup(file, writeOk) ==
  LET r == load_credentials(file, writeOk)
  IN [pre |-> file, file |-> r.file, raised |-> r.raised,
      exit |-> IF r.raised = "none" THEN "running" ELSE "1",
      manager |-> r.raised = "none",
      username |-> r.username, password |-> r.password,
      connections |-> 0, writeOk |-> writeOk]

NoStartup ==
  [pre |-> NoCredFile, file |-> NoCredFile, raised |-> "none", exit |-> "not started",
   manager |-> FALSE, username |-> "", password |-> "", connections |-> 0, writeOk |-> TRUE]

InitCred ==
  /\ PoolIdle
  /\ IdleBut({"cred"})
  /\ \E f \in CredFiles : cred = [file |-> f, run |-> NoStartup]

\* The program is started.
StartProgram ==
  /\ \E writeOk \in BOOLEAN :
       /\ cred.file.exists => writeOk
       /\ LET r == Startup(cred.file, writeOk)
          IN cred' = [file |-> r.file, run |-> r]
  /\ UNCHANGED <<poolVars, runVars, cmd, logfs, fdbc, ver, upd, vcache, sel, moreVars>>

\* The user edits, creates or deletes credentials.txt between two starts.
EditCredentials ==
  /\ \E f \in CredFiles : f # cred.file /\ cred' = [cred EXCEPT !.file = f]
  /\ UNCHANGED <<poolVars, runVars, cmd, logfs, fdbc, ver, upd, vcache, sel, moreVars>>

NextCred ==
  \/ StartProgram
  \/ EditCredentials

SpecCred == InitCred /\ [][NextCred]_vars

Started == cred.run.exit # "not started"

MaxCredRevision == 2

\* The pools whose owner reads the credentials once, in main(), and keeps them
\* in the manager object (self.username, self.password).
ManagerPools == {"central", "bulk"}

\* The revision of credentials.txt that a connect() of pool i logs in with:
\* the manager's fields, or the file as it is now (FDBSearching and the
\* template open credentials.txt in get_ssh_connection, before every connect).
ConnectCredential(i, cu) == IF i \in ManagerPools THEN cu.loaded ELSE cu.file

\* A process has started: main() of main.py and of BulkCommands has loaded
\* revision 1; FDBSearching and the template have read nothing yet (0).
InitCredUse ==
  /\ impl \in Impl
  /\ InitPool
  /\ pc = "lib"
  /\ exitCode = "running"
  /\ batch = NoBatch
  /\ runlog = <<>>
  /\ IdleBut({"credUse"})
  /\ credUse = [file |-> 1, loaded |-> IF impl \in ManagerPools THEN 1 ELSE 0,
                used |-> <<>>]

\* get_connection(h) / get_ssh_connection(h, pool), with the credential of
\* the session it opens, if it opens one.
CredAcquire(h) ==
  /\ \E in \in AcquireInputs :
       /\ CanGive(h, in)
       /\ LET r == acquire(impl, connections, sessions, h, in)
          IN /\ Acquired(h, r)
             /\ credUse' = IF Len(r.sess) > Len(sessions)
                           THEN [credUse EXCEPT !.used = Append(@, ConnectCredential(impl, credUse))]
                           ELSE credUse
  /\ UNCHANGED runVars
  /\ UNCHANGED <<cmd, logfs, fdbc, ver, upd, vcache, sel, cred, csv, cmp, mode1>>

\* The user saves other credentials in credentials.txt while the process runs.
CredFileChanges ==
  /\ credUse.file <= MaxCredRevision
  /\ credUse' = [credUse EXCEPT !.file = @ + 1]
  /\ UNCHANGED <<poolVars, runVars>>
  /\ UNCHANGED <<cmd, logfs, fdbc, ver, upd, vcache, sel, cred, csv, cmp, mode1>>

NextCredUse ==
  \/ \E h \in Hosts : CredAcquire(h)
  \/ CredFileChanges
  \/ \E s \in 1..MaxSessions : Die(s)

SpecCredUse == InitCredUse /\ [][NextCredUse]_vars

\* C21: every session opened during one process run logged in with the same
\* credential, the one read before the first connection, whatever happened to
\* the file since.
C21_OneCredentialPerProcess ==
  \A s \in 1..Len(credUse.used) : credUse.used[s] = credUse.used[1]

\* C21 for the pools that have a manager object: every session logged in with
\* the credential loaded at start-up.
C21_ManagerPoolsUseLoadedCredential ==
  impl \in ManagerPools =>
    /\ credUse.loaded = 1
    /\ \A s \in 1..Len(credUse.used) : credUse.used[s] = credUse.loaded

\* A manager pool opened a session after the file had changed.
C21_ManagerWitness ==
  /\ impl \in ManagerPools
  /\ credUse.file > 1
  /\ Len(credUse.used) >= 2

\* --------------------------------------------- BulkCommands: load_csv_column

\* Lines of a CSV file after the header line.
MaxRows == 2
\* Cells of one line.
MaxCells == 2

\* The two files of a batch run with the column read from each.
CsvColumn == [switches |-> "hostname", commands |-> "command"]

\* A line as csv.reader yields it: its cells (a blank line is <<>>).
CsvLines(values) == UNION {[1..n -> values] : n \in 0..MaxCells}

\* A file: no line at all, or a header line and the lines after it. A cell is
\* a sequence of characters; " " is whitespace.
CsvFiles(col) ==
  {<<>>} \cup
  {<<hd>> \o rows :
     hd \in CsvLines({col, "site"}),
     rows \in UNION {[1..n -> CsvLines({<<>>, <<" ">>, <<"a">>, <<" ", "a">>, <<"b">>})] :
                       n \in 0..MaxRows}}

\* str.strip()
RECURSIVE Strip(_)
Strip(cell) ==
  IF cell = <<>> THEN <<>>
  ELSE IF Head(cell) = " " THEN Strip(Tail(cell))
  ELSE IF cell[Len(cell)] = " " THEN Strip(SubSeq(cell, 1, Len(cell) - 1))
  ELSE cell

\* The value of a missing cell (DictReader's restval): not a string of
\* characters.
None == <<"None">>

\* csv.DictReader, row[column_name]: dict(zip(fieldnames, row)), so the last
\* column of that name wins, then every field past the end of a short row is
\* set to restval.
DictCell(fieldnames, row, column_name) ==
  LET at == {i \in 1..Len(fieldnames) : fieldnames[i] = column_name}
      zipped == {i \in at : i <= Len(row)}
      last_i == CHOOSE i \in zipped : \A j \in zipped : j <= i
  IN IF at \ zipped # {} THEN None ELSE row[last_i]

CsvError(text, namesColumn) ==
  [raised |-> TRUE, items |-> <<>>, text |-> text, namesFile |-> TRUE,
   namesColumn |-> namesColumn]

\* The loop "for row in reader" over the lines left: blank lines are skipped
\* by DictReader, a None cell makes .strip() raise, an empty value is skipped.
RECURSIVE ReadItems(_, _, _, _)
ReadItems(fieldnames, lines, column_name, items) ==
  IF lines = <<>> THEN [raised |-> FALSE, items |-> items]
  ELSE IF Head(lines) = <<>> THEN ReadItems(fieldnames, Tail(lines), column_name, items)
  ELSE LET cell == DictCell(fieldnames, Head(lines), column_name)
       IN IF cell = None THEN [raised |-> TRUE, items |-> items]
          ELSE ReadItems(fieldnames, Tail(lines), column_name,
                         IF Strip(cell) # <<>> THEN Append(items, Strip(cell)) ELSE items)

\* load_csv_column returning an empty list where it raises "No items found".
load_csv_columnMutantEmptyList(file, column_name) ==
  IF file = <<>> \/ file[1] = <<>> \/ ~(\E i \in 1..Len(file[1]) : file[1][i] = column_name)
  THEN CsvError("Error reading: Column not found in", TRUE)
  ELSE LET r == ReadItems(file[1], Tail(file), column_name, <<>>)
       IN IF r.raised THEN CsvError("Error reading: 'NoneType' object has no attribute 'strip'", FALSE)
          ELSE [raised |-> FALSE, items |-> r.items, text |-> "", namesFile |-> FALSE,
                namesColumn |-> FALSE]

\* load_csv_column(csv_path, column_name): the items, or the ValueError with
\* what its message names. The ValueError of the header check is raised inside
\* the try and wrapped again by "except Exception".
load_csv_column(file, column_name) ==
  IF file = <<>> \/ file[1] = <<>> \/ ~(\E i \in 1..Len(file[1]) : file[1][i] = column_name)
  THEN CsvError("Error reading: Column not found in", TRUE)
  ELSE LET r == ReadItems(file[1], Tail(file), column_name, <<>>)
       IN IF r.raised THEN CsvError("Error reading: 'NoneType' object has no attribute 'strip'", FALSE)
          ELSE IF r.items = <<>> THEN CsvError("No items found in", FALSE)
          ELSE [raised |-> FALSE, items |-> r.items, text |-> "", namesFile |-> FALSE,
                namesColumn |-> FALSE]

\* run_bulk_commands is entered with both files present: one of them is any
\* file, the other one has one good row.
InitCsv ==
  /\ PoolIdle
  /\ IdleBut({"csv"})
  /\ \E which \in {"switches", "commands"} :
       \E f \in CsvFiles(CsvColumn[which]) :
         csv = [which |-> which, file |-> f, stage |-> "start",
                r |-> CsvError("", FALSE), contacted |-> 0]

\* run_bulk_commands, step 2: both columns are loaded; a ValueError is printed
\* and the function returns. The file that is not under study loads one item.
LoadConfiguration ==
  /\ csv.stage = "start"
  /\ LET r == load_csv_column(csv.file, CsvColumn[csv.which])
     IN csv' = [csv EXCEPT !.r = r, !.stage = IF r.raised THEN "returned" ELSE "loop"]
  /\ UNCHANGED <<poolVars, runVars, cmd, logfs, fdbc, ver, upd, vcache, sel, cred>>
  /\ UNCHANGED <<credUse, cmp, mode1>>

\* run_bulk_commands, step 4: process_switch for the next switch of the list
\* (one switch when the file under study is commands.csv).
ContactSwitch ==
  /\ csv.stage = "loop"
  /\ csv' = [csv EXCEPT !.contacted = @ + 1,
                        !.stage = IF csv.contacted + 1 =
                                       (IF csv.which = "switches" THEN Len(csv.r.items) ELSE 1)
                                  THEN "returned" ELSE "loop"]
  /\ UNCHANGED <<poolVars, runVars, cmd, logfs, fdbc, ver, upd, vcache, sel, cred>>
  /\ UNCHANGED <<credUse, cmp, mode1>>

NextCsv ==
  \/ LoadConfiguration
  \/ ContactSwitch

SpecCsv == InitCsv /\ [][NextCsv]_vars

\* The header line has the target column.
HasColumn ==
  /\ csv.file # <<>>
  /\ \E i \in 1..Len(csv.file[1]) : csv.file[1][i] = CsvColumn[csv.which]

\* The lines after the header that are not blank lines.
DataRows == {i \in 2..Len(csv.file) : csv.file[i] # <<>>}

\* The cell of line i under the first column of the target name, None when
\* the line ends before it.
TargetCell(i) ==
  LET hd == csv.file[1]
      c == CHOOSE k \in 1..Len(hd) : hd[k] = CsvColumn[csv.which] /\
                                     \A j \in 1..(k - 1) : hd[j] # CsvColumn[csv.which]
  IN IF c <= Len(csv.file[i]) THEN csv.file[i][c] ELSE None

\* The columns of the header with the target name.
TargetColumns == {k \in 1..Len(csv.file[1]) : csv.file[1][k] = CsvColumn[csv.which]}

\* The header names the target column exactly once.
OneTargetColumn == Cardinality(TargetColumns) = 1

\* C22: a file with the target column in its header and only blank cells under
\* it makes load_csv_column raise a ValueError naming the file; a file without
\* the column, or empty, makes it raise one naming the file and the column; the
\* run then contacts no host.
C22_BlankOrMissingColumnIsInputError ==
  csv.stage # "start" =>
    /\ (HasColumn /\
        \A i \in DataRows, k \in TargetColumns :
           k <= Len(csv.file[i]) => Strip(csv.file[i][k]) = <<>>)
         => csv.r.raised /\ csv.r.namesFile /\ csv.contacted = 0
    /\ ~HasColumn
         => csv.r.raised /\ csv.r.namesFile /\ csv.r.namesColumn /\ csv.contacted = 0
    /\ csv.r.raised => csv.contacted = 0 /\ csv.stage = "returned"

\* A header with the column, two rows with blank cells under it: the load
\* raised and the run returned.
C22_Witness ==
  /\ csv.stage = "returned" /\ csv.which = "switches"
  /\ HasColumn /\ OneTargetColumn /\ Cardinality(DataRows) = 2
  /\ \A i \in DataRows : TargetCell(i) = <<" ">>
  /\ csv.r.raised /\ csv.r.text = "No items found in" /\ csv.contacted = 0

\* The data rows with a non-blank cell under the target column.
NonBlankRows == {i \in DataRows : TargetCell(i) # None /\ Strip(TargetCell(i)) # <<>>}

\* The k-th of them in file order.
KthNonBlankRow(k) ==
  CHOOSE i \in NonBlankRows : Cardinality({j \in NonBlankRows : j <= i}) = k

\* C23: for a file whose header has the target column (and a value under it),
\* load_csv_column returns the non-blank cells of the column, stripped, in
\* file order, duplicates kept; a row whose cell is blank or missing is
\* skipped and the load does not fail.
C23_ReturnsNonBlankValuesInOrder ==
  (csv.stage # "start" /\ HasColumn /\ OneTargetColumn /\ NonBlankRows # {}) =>
    /\ ~csv.r.raised
    /\ csv.r.items = [k \in 1..Cardinality(NonBlankRows) |-> Strip(TargetCell(KthNonBlankRow(k)))]

\* C23 where every data row reaches the target column: the values are returned
\* as the claim says, blank cells skipped.
C23_WhenNoCellMissing ==
  (csv.stage # "start" /\ HasColumn /\ OneTargetColumn /\ NonBlankRows # {}
   /\ \A i \in DataRows : TargetCell(i) # None) =>
    /\ ~csv.r.raised
    /\ csv.r.items = [k \in 1..Cardinality(NonBlankRows) |-> Strip(TargetCell(KthNonBlankRow(k)))]

\* A blank cell was skipped and the same value was returned twice.
C23_SkipWitness ==
  /\ csv.stage # "start" /\ HasColumn /\ OneTargetColumn
  /\ \E i \in DataRows : TargetCell(i) = <<" ">>
  /\ csv.r.items = <<<<"a">>>>
  /\ \E i \in DataRows : TargetCell(i) = <<" ", "a">>

\* ------------------------------------- claims about the batch run (SpecRun)

\* A tool started from the central menu is running.
ToolRunning == impl = "central" /\ pc \in {"host", "cmd", "footer"}

\* The last call was a get_connection that found a session cached for its host.
AcquiredCached ==
  /\ last.op = "acquire"
  /\ last.pre[last.host] # NoSession

\* C24: the tools of the central menu work on the menu's one pool. While a tool
\* runs a pooled session leaves the pool only when its probe failed; when the
\* tool returns to the menu the pool and the sessions are as the tool left
\* them (nothing is closed on return); and a later acquire of a pooled host,
\* by the next tool or by the interactive session, probes the pooled session
\* and returns it when the probe succeeds.
C24_MenuToolsShareThePool ==
  /\ [][(ToolRunning /\ pc' # "done") =>
          /\ \A h \in Hosts :
               (connections[h] # NoSession /\ connections'[h] # connections[h]) =>
                 /\ last'.op = "acquire" /\ last'.host = h /\ last'.pre = connections
                 /\ \E i \in EvOps(last'.ev, "probe") :
                      last'.ev[i].arg = connections[h] /\ ~last'.ev[i].ok
          /\ pc' = "menu" => connections' = connections /\ sessions' = sessions]_vars
  /\ [](impl = "central" /\ AcquiredCached =>
          /\ \E i \in EvOps(last.ev, "probe") : last.ev[i].arg = last.pre[last.host]
          /\ ProbesOk(last.ev) =>
               /\ last.ret = last.pre[last.host]
               /\ connections = last.pre
               /\ EvOps(last.ev, "connect") = {})

\* After a batch run returned to the menu with its summary, the interactive
\* session got the session that the batch had opened for the host.
C24_Witness ==
  /\ impl = "central" /\ pc = "menu" /\ batch.ended = "summary"
  /\ AcquiredCached /\ ProbesOk(last.ev)
  /\ last.ret = last.pre[last.host] /\ connections[last.host] = last.ret

\* ------------------------------------------------ update.py: compare_versions

\* The "tools" entry of a versions.json: each tool with its version string, or
\* not listed.
ToolManifests ==
  [Tools -> {Absent, <<"0">>, <<"1">>, <<"1", ".", "0">>, <<"1", ".", "1">>, <<"a">>}]

InitCmp ==
  /\ PoolIdle
  /\ IdleBut({"cmp"})
  /\ \E l \in ToolManifests, r \in ToolManifests :
       cmp = [local |-> l, remote |-> r, called |-> FALSE, updates |-> [t \in {} |-> 0]]

\* main(): updates_available = compare_versions(local_versions, remote_versions)
CallCompare ==
  /\ ~cmp.called
  /\ cmp' = [cmp EXCEPT !.called = TRUE, !.updates = compare_versions(cmp.local, cmp.remote)]
  /\ UNCHANGED <<poolVars, runVars, cmd, logfs, fdbc, ver, upd, vcache, sel, cred>>
  /\ UNCHANGED <<credUse, csv, mode1>>

SpecCmp == InitCmp /\ [][CallCompare]_vars

\* The claim's "newer": both strings parse and the padded tuple of latest is
\* the greater one.
NewerThan(current, latest) ==
  LET a == Len(SplitDots(current))
      b == Len(SplitDots(latest))
      n == IF a > b THEN a ELSE b
  IN /\ VerParses(current) /\ VerParses(latest)
     /\ LexGreater(VerTuple(latest, n), VerTuple(current, n))

\* C25: compare_versions reports a tool exactly when the remote manifest lists
\* it with a version newer than the local one, a tool that the local manifest
\* lacks counting as "0.0.0"; a tool that only the local manifest lists is not
\* reported; each entry has the local version as current and the remote
\* version as latest.
C25_ReportsExactlyNewerRemoteTools ==
  cmp.called =>
    \A t \in Tools :
      LET current == IF cmp.local[t] = Absent THEN V_0_0_0 ELSE cmp.local[t]
      IN /\ t \in DOMAIN cmp.updates <=>
              (cmp.remote[t] # Absent /\ NewerThan(current, cmp.remote[t]))
         /\ (cmp.remote[t] = Absent /\ cmp.local[t] # Absent) => t \notin DOMAIN cmp.updates
         /\ t \in DOMAIN cmp.updates =>
              cmp.updates[t] = [current |-> current, latest |-> cmp.remote[t]]

\* One tool is new (reported against "0.0.0"), the other one is listed only
\* in the local manifest (not reported).
C25_Witness ==
  /\ cmp.called
  /\ \E t \in Tools, u \in Tools :
       /\ cmp.local[t] = Absent /\ cmp.remote[t] = <<"1", ".", "0">>
       /\ t \in DOMAIN cmp.updates /\ cmp.updates[t].current = V_0_0_0
       /\ cmp.local[u] # Absent /\ cmp.remote[u] = Absent /\ u \notin DOMAIN cmp.updates

\* The loop of run_bulk_commands is over, the summary not yet printed.
LoopOver == pc = "host" /\ batch.si > Len(batch.switches)

\* The sum of one counter over the hosts processed so far.
RECURSIVE SumStats(_, _)
SumStats(log, counter) ==
  IF log = <<>> THEN 0 ELSE log[1].stats[counter] + SumStats(Tail(log), counter)

\* C26: after a host has been processed, total = success + errors and total is
\* the number of commands attempted; at the end of the run the run-wide totals
\* are the sums of the per-host counters, processed is the number of hosts of
\* the list and connection_failures the number of hosts with connection_failed.
C26_CountersAddUp ==
  /\ \A i \in 1..Len(runlog) :
       /\ runlog[i].stats.total = runlog[i].stats.success + runlog[i].stats.errors
       /\ runlog[i].stats.total = Len(runlog[i].attempted)
  /\ LoopOver =>
       /\ batch.overall.total_commands = SumStats(runlog, "total")
       /\ batch.overall.total_success = SumStats(runlog, "success")
       /\ batch.overall.total_errors = SumStats(runlog, "errors")
       /\ batch.overall.processed = Len(batch.switches)
       /\ batch.overall.connection_failures =
            Cardinality({i \in 1..Len(runlog) : runlog[i].stats.connection_failed})

\* C26 for the hosts whose log entries could be written, and the run-wide
\* totals in every run that reaches the summary.
C26_WhenLogWritable ==
  /\ \A i \in 1..Len(runlog) :
       /\ ~runlog[i].logFailed =>
            runlog[i].stats.total = runlog[i].stats.success + runlog[i].stats.errors
       /\ runlog[i].stats.total = Len(runlog[i].attempted)
  /\ LoopOver =>
       /\ batch.overall.total_commands = SumStats(runlog, "total")
       /\ batch.overall.total_success = SumStats(runlog, "success")
       /\ batch.overall.total_errors = SumStats(runlog, "errors")
       /\ batch.overall.processed = Len(batch.switches)
       /\ batch.overall.connection_failures =
            Cardinality({i \in 1..Len(runlog) : runlog[i].stats.connection_failed})

\* C27: process_switch returns connection_failed only when acquiring the
\* session failed: then no command was executed and the three counters are
\* zero; a log header, entry or footer that cannot be written after a
\* successful connection is not a connection failure.
C27_ConnectionFailedOnlyIfAcquireFailed ==
  \A i \in 1..Len(runlog) :
    runlog[i].stats.connection_failed =>
      /\ ~runlog[i].acquired
      /\ runlog[i].attempted = <<>>
      /\ runlog[i].stats.total = 0
      /\ runlog[i].stats.success = 0
      /\ runlog[i].stats.errors = 0

\* C27 for the hosts whose log file could be written at every attempt, and
\* for every host whose acquire failed.
C27_WhenLogWritable ==
  \A i \in 1..Len(runlog) :
    /\ ~runlog[i].logFailed => (runlog[i].stats.connection_failed <=> ~runlog[i].acquired)
    /\ ~runlog[i].acquired =>
         /\ runlog[i].stats = [NoStats EXCEPT !.connection_failed = TRUE]
         /\ runlog[i].attempted = <<>>

\* The host h has a dead session in the pool.
DeadInPool(h) == connections[h] # NoSession /\ sessions[connections[h]].st = "dead"

\* The step is a call get_connection(h).
AcquireStep(h) == last' # last /\ last'.op = "acquire" /\ last'.host = h

\* The step runs one command of the current host, or returns from
\* process_switch: the counters and the commands attempted after it, and
\* whether a log write has failed for the host.
StatsAfter == IF pc' = "host" THEN runlog'[Len(runlog')].stats ELSE batch'.stats
AttemptedAfter == IF pc' = "host" THEN runlog'[Len(runlog')].attempted ELSE batch'.attempted
LogFailedAfter == IF pc' = "host" THEN runlog'[Len(runlog')].logFailed ELSE batch'.logFailed

\* While the commands of a host run there is no pool call.
NoPoolCallBetweenCommands ==
  (pc \in {"cmd", "footer"} /\ pc' # "done") => last' = last /\ connections' = connections

\* A host leaves process_switch before its first command only when its
\* acquire failed.
CommandsFollowAcquire ==
  (pc = "host" /\ pc' = "host" /\ Len(runlog') > Len(runlog)) =>
    ~runlog'[Len(runlog')].acquired

\* Each command is attempted once, in order, the next one follows, and on a
\* session that is dead it is counted as one error.
EveryCommandAttempted ==
  (pc = "cmd" /\ pc' # "done" /\ batch' # batch) =>
    /\ AttemptedAfter = Append(batch.attempted, batch.ci)
    /\ pc' = (IF batch.ci = batch.ncmds THEN "footer" ELSE "cmd")
    /\ ~CanExec(sessions, batch.ssh) =>
         /\ StatsAfter.success = batch.stats.success
         /\ StatsAfter.errors = batch.stats.errors + 1

\* A dead session leaves the pool only through an acquire of its host that
\* probed it, or through a close; and an acquire of its host does evict it.
DeadSessionEvictedByNextAcquire ==
  \A h \in Hosts :
    DeadInPool(h) =>
      /\ (connections'[h] # connections[h] /\ last'.op = "acquire") =>
           /\ AcquireStep(h)
           /\ \E i \in EvOps(last'.ev, "probe") :
                last'.ev[i].arg = connections[h] /\ ~last'.ev[i].ok
      /\ connections'[h] # connections[h] => last' # last
      /\ AcquireStep(h) =>
           /\ connections'[h] # connections[h]
           /\ \E i \in EvOps(last'.ev, "probe") : last'.ev[i].arg = connections[h]

\* C28: for one host of a batch run the session is acquired once, before the
\* first command, and used for all N commands with no acquire or probe in
\* between; when the session is dead each remaining command is still attempted
\* and counted as failed, none skipped or retried; the dead session stays in
\* the pool until the next acquire of the host probes and evicts it.
C28_OneAcquireAllCommandsDeadSessionKept ==
  [][/\ NoPoolCallBetweenCommands
     /\ CommandsFollowAcquire
     /\ EveryCommandAttempted
     /\ DeadSessionEvictedByNextAcquire]_vars

\* C28 for the pools that probe, on the steps where the log could be written.
C28_ProbingPoolsWhenLogWritable ==
  [][/\ NoPoolCallBetweenCommands
     /\ (pc \in {"host", "cmd"} /\ pc' # "done" /\ batch' # batch /\ ~LogFailedAfter) =>
          CommandsFollowAcquire /\ EveryCommandAttempted
     /\ impl # "bulk" => DeadSessionEvictedByNextAcquire]_vars

\* ------------------------------- FDBSearching: a lookup, session and cache

\* FDBSearching's main(): ssh_connections = {} and fdb_cache = {}, then the
\* mode menu.
InitLookup ==
  /\ impl = "fdb"
  /\ InitPool
  /\ pc = "menu"
  /\ exitCode = "running"
  /\ batch = NoBatch
  /\ runlog = <<>>
  /\ IdleBut({"fdbc"})
  /\ fdbc = [now |-> 0, cache |-> [h \in Hosts |-> NoEntry], table |-> [h \in Hosts |-> 0],
             fetched |-> [h \in Hosts |-> NoEntry], call |-> NoFdbCall]

\* The try block of mode1_mac_search and mode2_port_search for switch h:
\* ssh = get_ssh_connection(h, ssh_connections), then
\* get_fdb_info(ssh, h, fdb_cache); an exception of either is printed.
\* "show fdb" can succeed only on a live session.
Lookup(h) ==
  /\ \E in \in AcquireInputs :
       /\ CanGive(h, in)
       /\ LET a == acquire(impl, connections, sessions, h, in)
          IN /\ Acquired(h, a)
             /\ IF a.raised.kind # "none"
                THEN fdbc' = fdbc
                ELSE \E answer \in Answers \cup {NoAnswer}, fetchOk \in BOOLEAN :
                       LET r == get_fdb_info(fdbc.cache, h, fdbc.now, FALSE, answer, fetchOk,
                                             fdbc.table[h])
                       IN /\ (answer # NoAnswer) <=>
                               /\ fdbc.cache[h] # NoEntry
                               /\ fdbc.now - fdbc.cache[h].timestamp >= cache_duration
                          /\ ~r.fetched => fetchOk
                          /\ (r.fetched /\ fetchOk) => a.sess[a.ret].st = "live"
                          /\ fdbc' = [fdbc EXCEPT
                                 !.cache = r.cache,
                                 !.fetched[h] = IF r.fetched /\ ~r.raised
                                                THEN [data |-> r.ret, timestamp |-> fdbc.now]
                                                ELSE @,
                                 !.call = [host |-> h, force |-> FALSE, at |-> fdbc.now,
                                           answer |-> answer, pre |-> fdbc.cache[h],
                                           preCache |-> fdbc.cache, table |-> fdbc.table[h],
                                           r |-> r]]
  /\ UNCHANGED runVars
  /\ UNCHANGED <<cmd, logfs, ver, upd, vcache, sel, cred, moreVars>>

NextLookup ==
  \/ \E h \in Hosts : Lookup(h)
  \/ FdbClock
  \/ \E s \in 1..MaxRunSessions : Die(s)

SpecLookup == InitLookup /\ [][NextLookup]_vars

\* The last get_fdb_info call ended without a successful fetch.
NoFetchDone == fdbc.call.r.raised \/ ~fdbc.call.r.fetched

\* C29: get_fdb_info changes the entry of its host only after a successful
\* fetch: when "show fdb" or the read raises, and when the user declines the
\* refresh of a stale entry, the entry is as before the call (so it is still
\* stale and the next lookup prompts again); the entries of other hosts are
\* never changed; evicting or recreating the SSH session of a host (or the
\* session dying) leaves every cache entry as it is.
C29_CacheChangesOnlyOnSuccessfulFetch ==
  /\ [](fdbc.call.host # NoHost =>
          /\ \A g \in Hosts \ {fdbc.call.host} : fdbc.call.r.cache[g] = fdbc.call.preCache[g]
          /\ NoFetchDone => fdbc.call.r.cache[fdbc.call.host] = fdbc.call.pre
          /\ (fdbc.call.r.prompted /\ ~fdbc.call.r.fetched) =>
               fdbc.call.at - fdbc.call.r.cache[fdbc.call.host].timestamp >= cache_duration
          /\ fdbc.cache = fdbc.call.r.cache)
  /\ [][/\ fdbc'.cache # fdbc.cache =>
             /\ fdbc'.call.r.fetched /\ ~fdbc'.call.r.raised /\ fdbc'.call.at = fdbc.now
             /\ \A g \in Hosts \ {fdbc'.call.host} : fdbc'.cache[g] = fdbc.cache[g]
        /\ \A h \in Hosts : fdbc.cache[h] # NoEntry => fdbc'.cache[h] # NoEntry
        /\ (sessions' # sessions /\ fdbc'.call = fdbc.call) => fdbc'.cache = fdbc.cache]_vars

\* The session of a host with a cache entry was evicted and recreated, the
\* stale entry was offered, and "show fdb" then failed: the entry is the old one.
C29_Witness ==
  /\ fdbc.call.host = last.host /\ last.op = "acquire"
  /\ EvOps(last.ev, "del") # {} /\ EvOps(last.ev, "connect") # {}
  /\ fdbc.call.pre # NoEntry
  /\ fdbc.call.r.prompted /\ fdbc.call.r.raised
  /\ fdbc.cache[fdbc.call.host] = fdbc.call.pre

\* ------------------------------------ FDBSearching: the prompts of mode 1

\* Prompts answered in one session at the keyboard.
MaxAnswers == 7

\* The MAC prefixes a user may type; macdatabase.txt lists some of them, or
\* the file is missing.
Macs == {"aa:bb:cc", "dd:ee:ff"}

\* The prompts that take y / n, where any answer but y leaves the loop.
LeavePrompts == {"another ip", "another mac"}

\* main() of FDBSearching shows the mode menu.
InitMode1 ==
  /\ PoolIdle
  /\ IdleBut({"mode1"})
  /\ \E file \in {"present", "missing"}, db \in SUBSET Macs :
       /\ file = "missing" => db = {}
       /\ mode1 = [at |-> "menu", file |-> file, db |-> db, mac |-> "",
                   after |-> "start", answered |-> 0]

\* Choice 1 of the mode menu: mode1_mac_search asks for the MAC address.
EnterMode1 ==
  /\ mode1.at = "menu"
  /\ mode1.answered < MaxAnswers
  /\ mode1' = [mode1 EXCEPT !.at = "mac", !.after = "mode 1", !.answered = @ + 1]
  /\ UNCHANGED <<poolVars, runVars, cmd, logfs, fdbc, ver, upd, vcache, sel, cred>>
  /\ UNCHANGED <<credUse, csv, cmp>>

\* "Enter the MAC address: ": check_mac_database opens macdatabase.txt outside
\* every try (a missing file ends the program through main()'s finally); no
\* matching prefix prints "No match found" and continues the outer loop; a
\* match goes on to the prompt for the switch.
AnswerMac(m) ==
  /\ mode1.at = "mac"
  /\ mode1.answered < MaxAnswers
  /\ mode1' = [mode1 EXCEPT
       !.answered = @ + 1,
       !.mac = m,
       !.after = IF mode1.file = "missing" THEN "error" ELSE
                 IF m \in mode1.db THEN "match" ELSE "no match",
       !.at = IF mode1.file = "missing" THEN "exit" ELSE
              IF m \in mode1.db THEN "ip" ELSE "mac"]
  /\ UNCHANGED <<poolVars, runVars, cmd, logfs, fdbc, ver, upd, vcache, sel, cred>>
  /\ UNCHANGED <<credUse, csv, cmp>>

\* "Enter the last 2 octets of the IP address: ": the try block with
\* get_ssh_connection, get_fdb_info and the port commands. When it ends the
\* flow asks "try another IP"; when anything in it raises, the error is
\* printed and the inner loop asks for the octets again.
AnswerIp(outcome) ==
  /\ mode1.at = "ip"
  /\ mode1.answered < MaxAnswers
  /\ mode1' = [mode1 EXCEPT
       !.answered = @ + 1,
       !.after = outcome,
       !.at = IF outcome = "error" THEN "ip" ELSE "another ip"]
  /\ UNCHANGED <<poolVars, runVars, cmd, logfs, fdbc, ver, upd, vcache, sel, cred>>
  /\ UNCHANGED <<credUse, csv, cmp>>

\* "Do you want to try another IP for this MAC address (y/n)? " and
\* "Do you want to check another MAC address (y/n)? ": .lower() != 'y' breaks.
AnswerYesNo(a) ==
  /\ mode1.at \in LeavePrompts
  /\ mode1.answered < MaxAnswers
  /\ mode1' = [mode1 EXCEPT
       !.answered = @ + 1,
       !.after = "answered",
       !.at = IF mode1.at = "another ip"
              THEN (IF Lower(a) = "y" THEN "ip" ELSE "another mac")
              ELSE (IF Lower(a) = "y" THEN "mac" ELSE "menu")]
  /\ UNCHANGED <<poolVars, runVars, cmd, logfs, fdbc, ver, upd, vcache, sel, cred>>
  /\ UNCHANGED <<credUse, csv, cmp>>

NextMode1 ==
  \/ EnterMode1
  \/ \E m \in Macs : AnswerMac(m)
  \/ \E outcome \in {"found", "not in fdb", "error"} : AnswerIp(outcome)
  \/ \E a \in Answers : AnswerYesNo(a)

SpecMode1 == InitMode1 /\ [][NextMode1]_vars

C30_LeaveOnlyAfterCompletedLookup ==
  /\ mode1.at \in LeavePrompts => mode1.after \in {"found", "not in fdb", "answered"}
  /\ (mode1.at = "menu" /\ mode1.after # "start") => mode1.after = "answered"

====
